---------------------------- MODULE Spec2Model ----------------------------
(***************************************************************************)
(* A model of DiscIO::VolumeWii (Source/Core/DiscIO/VolumeWii.cpp): the    *)
(* partition discovery of the constructor, the encrypted read path with    *)
(* its one-cluster cache, the integrity checker and the accessors.         *)
(*                                                                         *)
(* The disc image is a value chosen in Init and never changed.  The AES    *)
(* and SHA-1 primitives of mbedtls are modelled symbolically: a plaintext  *)
(* is named by the key, the IV and the ciphertext it was decrypted from,   *)
(* and the image says under which key each cluster was authored.  Bytes    *)
(* returned by Read are kept as runs (slices of a plaintext), adjacent     *)
(* runs of the same plaintext merged, so that two byte strings are equal   *)
(* exactly when their run sequences are.                                   *)
(*                                                                         *)
(* Numbers are the program's own (0x7C00 = 31744, 0x8000 = 32768, ...).    *)
(* The offsets the model draws are small, so u64 arithmetic never wraps    *)
(* in it; the two u32 computations of the constructor keep their width.    *)
(*                                                                         *)
(* The module also models Common::EscapeFileName and UnescapeFileName      *)
(* (Source/Core/Common/NandPaths.cpp); a file name is a sequence of bytes. *)
(***************************************************************************)
EXTENDS Integers, Sequences, FiniteSets, TLC

VARIABLES
  img,                          \* the disc image behind m_pReader
  pc,                           \* position of the constructor
  partition_group,              \* constructor local: the group being scanned
  number_of_partitions,         \* constructor local: count of the group
  partition_table_offset,       \* constructor local: table offset of the group
  i,                            \* constructor local: index in the group
  cur,                          \* constructor locals of the entry being stored
  m_partition_keys,             \* Partition -> AES key schedule (the key's id)
  m_partition_tickets,          \* Partition -> TicketReader
  m_partition_tmds,             \* Partition -> TMDReader
  m_game_partition,
  m_last_decrypted_block,       \* cache: absolute offset of the cached cluster
  m_last_decrypted_block_data,  \* cache: the plaintext buffer
  alerts,                       \* entries for which PanicAlert was raised
  last,                         \* the last call made on the volume, its result
  filename,                     \* NandPaths: the file name given to EscapeFileName
  escaped,                      \* NandPaths: what EscapeFileName returned
  unescaped,                    \* NandPaths: what UnescapeFileName returned
  name_pc                       \* NandPaths: which of the two calls were made

vars == <<img, pc, partition_group, number_of_partitions, partition_table_offset,
          i, cur, m_partition_keys, m_partition_tickets, m_partition_tmds,
          m_game_partition, m_last_decrypted_block, m_last_decrypted_block_data,
          alerts, last, filename, escaped, unescaped, name_pc>>

names == <<filename, escaped, unescaped, name_pc>>

(***************************************************************************)
(* Program constants.                                                      *)
(***************************************************************************)
PARTITION_DATA_OFFSET == 131072          \* 0x20000
BLOCK_HEADER_SIZE == 1024                \* 0x400
BLOCK_DATA_SIZE == 31744                 \* 0x7C00
BLOCK_TOTAL_SIZE == 32768                \* 0x8000
UINT64_MAX == -1                         \* 2^64 - 1, in two's complement
PARTITION_NONE == -2                     \* Partition(UINT64_MAX - 1)
NUM_GROUPS == 4
TICKET_SIZE == 676                       \* sizeof(IOS::ES::Ticket) = 0x2A4
TMD_HEADER_SIZE == 484                   \* sizeof(IOS::ES::TMDHeader) = 0x1E4
MAX_TMD_SIZE == 4194304                  \* upper bound of a valid TMD size
NUM_HASHES == 31

(***************************************************************************)
(* Bounds of the model.                                                    *)
(***************************************************************************)
MaxDiscAnomalies == 2     \* deviations of a discovery image from the base image
MaxReadAnomalies == 2     \* deviations of a read image from the base image
MaxNameLen == 6           \* bytes of a file name

(***************************************************************************)
(* The images.  Partition headers sit at PartA, PartB and PartC; PartU is  *)
(* a descriptor no table entry names.  PartB = PartA + 0x8000, so cluster  *)
(* k+1 of PartA and cluster k of PartB are the same 0x8000 bytes of the    *)
(* image.                                                                  *)
(***************************************************************************)
PartA == 4 * 81920                       \* 0x50000
PartB == PartA + BLOCK_TOTAL_SIZE        \* 0x58000
PartC == PartB + BLOCK_TOTAL_SIZE        \* 0x60000
PartU == PartA + 4 * 4096                \* 0x54000
ClusterY == PartA + PARTITION_DATA_OFFSET \* 0x70000: cluster 0 of PartA
ClusterX == PartB + PARTITION_DATA_OFFSET \* 0x78000: cluster 1 of PartA, 0 of PartB
ClusterZ == ClusterX + BLOCK_TOTAL_SIZE   \* 0x80000: cluster 2 of PartA, 1 of PartB
Keys == {1, 2}

TableAddr(g) == 262176 + 16 * g          \* where the test images put group g's table
TmdAddrRaw == 704 \div 4                  \* TMD at partition + 0x2C0
TmdAddrHigh == 1073741824 + TmdAddrRaw   \* a raw TMD address with bit 30 set
TmdSizeGood == TMD_HEADER_SIZE + 36       \* 0x208: a header and one content
TmdSizeBad == TMD_HEADER_SIZE - 468       \* 0x10: below the header size

\* The partition table of a discovery image and of a read image: per group,
\* the entries <<partition offset, type>>.
DiscTable == <<  <<  <<PartA, 1>>, <<PartB, 0>>  >>,  << >>,  <<  <<PartC, 0>>  >>,  << >>  >>
ReadTable == <<  << >>,  <<  <<PartB, 0>>  >>,  << >>,  <<  <<PartA, 1>>  >>  >>

Entries(table) == {e \in (0 .. NUM_GROUPS - 1) \X (0 .. 1) : e[2] < Len(table[e[1] + 1])}

DiscMenu ==
  {<<"magic", 0, 0>>}
    \cup {<<"type", e[1], e[2]>> : e \in Entries(DiscTable)}
    \cup {<<"dup", 2, 0>>}
    \cup {<<"tikbad", p, 0>> : p \in {PartA, PartB, PartC}}
    \cup {<<"tmdsz", p, 0>> : p \in {PartA, PartB}}
    \cup {<<"keylen", p, 0>> : p \in {PartB, PartC}}
    \cup {<<"tmdhigh", p, 0>> : p \in {PartB}}
    \cup {<<"bad", a, 0>> : a \in {96, 262144, 262148, 262164, TableAddr(0), TableAddr(0) + 12,
                                   TableAddr(2) + 4, PartA + 100, PartB + 676, PartB + 680,
                                   PartC + 704 + TmdSizeGood - 1}}

ReadMenu ==
  {<<"magic", 0, 0>>, <<"samekey", 0, 0>>}
    \cup {<<"flip", c, j>> : c \in {ClusterY, ClusterX, ClusterZ}, j \in {0, NUM_HASHES - 1}}
    \cup {<<"hole", c, 0>> : c \in {ClusterY, ClusterX}}
    \cup {<<"rekey", c, 0>> : c \in {ClusterX}}
    \cup {<<"size", PartA, 16384>>, <<"size", PartA, 0>>, <<"size", PartB, 8191>>}
    \cup {<<"bad", a, 0>> : a \in {PartA + 700, PartB + 700, ClusterX + 5,
                                   ClusterX + 2000, ClusterZ + 1024, BLOCK_DATA_SIZE - 1}}

RECURSIVE SubsetsUpTo(_, _)
SubsetsUpTo(menu, k) ==
  IF k = 0 THEN {{}}
  ELSE LET prev == SubsetsUpTo(menu, k - 1)
       IN prev \cup {s \cup {a} : s \in prev, a \in menu}

PairsToFunction(pairs) ==
  [a \in {p[1] : p \in pairs} |-> (CHOOSE p \in pairs : p[1] = a)[2]]

\* The title key of the ticket at partition p.
KeyOfPartition(S, p) == IF p = PartB /\ <<"samekey", 0, 0>> \notin S THEN 2 ELSE 1

OtherKey(k) == IF k = 1 THEN 2 ELSE 1

\* The image with partition table `table` and the deviations S.
BuildImage(table, S) ==
  LET parts == {table[e[1] + 1][e[2] + 1][1] : e \in Entries(table)}
      groupWords ==
        UNION {{<<262144 + 8 * g, Len(table[g + 1])>>, <<262144 + 8 * g + 4, TableAddr(g) \div 4>>}
                 : g \in 0 .. NUM_GROUPS - 1}
      entryWords ==
        UNION {LET ent == table[e[1] + 1][e[2] + 1]
                   t == IF <<"type", e[1], e[2]>> \in S THEN 1 - ent[2] ELSE ent[2]
                   o == IF <<"dup", e[1], e[2]>> \in S THEN PartA ELSE ent[1]
               IN {<<TableAddr(e[1]) + 8 * e[2], o \div 4>>,
                   <<TableAddr(e[1]) + 8 * e[2] + 4, t>>}
                 : e \in Entries(table)}
      headerWords ==
        UNION {{<<p + 676, IF <<"tmdsz", p, 0>> \in S THEN TmdSizeBad ELSE TmdSizeGood>>,
                <<p + 680, IF <<"tmdhigh", p, 0>> \in S THEN TmdAddrHigh ELSE TmdAddrRaw>>,
                <<p + 700, IF \E a \in S : a[1] = "size" /\ a[2] = p
                           THEN (CHOOSE a \in S : a[1] = "size" /\ a[2] = p)[3]
                           ELSE IF p = PartB THEN 16384 ELSE 8192>>}
                 : p \in parts}
      authorKey(c) == IF c = ClusterY THEN KeyOfPartition(S, PartA) ELSE KeyOfPartition(S, PartB)
  IN [mem |-> PairsToFunction({<<96, IF <<"magic", 0, 0>> \in S THEN 1 ELSE 0>>}
                                \cup groupWords \cup entryWords \cup headerWords),
      tik |-> [p \in parts |->
                 [valid |-> <<"tikbad", p, 0>> \notin S,
                  keyLen |-> IF <<"keylen", p, 0>> \in S THEN 0 ELSE 16,
                  key |-> KeyOfPartition(S, p),
                  titleId |-> p + 1]],
      cl |-> [c \in {ClusterY, ClusterX, ClusterZ} |->
                [mdKey |-> authorKey(c),
                 dataKey |-> IF <<"rekey", c, 0>> \in S THEN OtherKey(authorKey(c))
                             ELSE authorKey(c),
                 pad |-> IF <<"hole", c, 0>> \in S THEN 1 ELSE 0,
                 flip |-> {j \in 0 .. NUM_HASHES - 1 : <<"flip", c, j>> \in S}]],
      bad |-> {a[2] : a \in {b \in S : b[1] = "bad"}}]

DiscImages == {BuildImage(DiscTable, S) : S \in SubsetsUpTo(DiscMenu, MaxDiscAnomalies)}
ReadImages == {BuildImage(ReadTable, S) : S \in SubsetsUpTo(ReadMenu, MaxReadAnomalies)}

(***************************************************************************)
(* The blob reader (DiscIO::BlobReader, an external collaborator): a read  *)
(* succeeds when it touches no unreadable byte.                            *)
(***************************************************************************)
ReaderRead(image, offset, length) ==
  \A b \in image.bad : b < offset \/ b >= offset + length

U32At(image, a) == IF a \in DOMAIN image.mem THEN image.mem[a] ELSE 0

\* BlobReader::ReadSwapped<u32>: the big-endian word, or nothing.
ReadSwapped32(image, offset) ==
  IF ReaderRead(image, offset, 4) THEN [ok |-> TRUE, v |-> U32At(image, offset)]
  ELSE [ok |-> FALSE, v |-> 0]

\* The 0x2A4 bytes at `a` read as a ticket.
InvalidTicketBytes == [valid |-> FALSE, keyLen |-> 16, key |-> 0, titleId |-> 0]
TicketAt(image, a) == IF a \in DOMAIN image.tik THEN image.tik[a] ELSE InvalidTicketBytes

(***************************************************************************)
(* The ticket and TMD views (Core/IOS/ES/Formats.h).                       *)
(***************************************************************************)
\* IOS::ES::IsValidTMDSize
IsValidTMDSize(size) == size >= TMD_HEADER_SIZE /\ size <= MAX_TMD_SIZE

\* A default-constructed TicketReader / TMDReader: no bytes, not valid.
INVALID_TICKET == [valid |-> FALSE, keyLen |-> 0, key |-> 0, titleId |-> 0]
INVALID_TMD == [at |-> UINT64_MAX, size |-> 0]

\* TicketReader::IsValid, TicketReader::GetTitleId, TMDReader::IsValid
TicketIsValid(ticket) == ticket.valid
TicketGetTitleId(ticket) == ticket.titleId
TMDIsValid(tmd) == tmd.size >= TMD_HEADER_SIZE

(***************************************************************************)
(* The constructor, VolumeWii::VolumeWii.                                  *)
(***************************************************************************)
\* (i * 8) on a u32 and (*tmd_address <<= 2) on a u32: the product modulo
\* 2^32, written so that no intermediate value leaves the integers' range.
Mul8_u32(n) == (n % 536870912) * 8
ShiftLeft2_u32(n) == (n % 1073741824) * 4
\* static_cast<u64>(x) << 2
ShiftLeft2_u64(n) == n * 4

MapPut(m, k, v) == [x \in DOMAIN m \cup {k} |-> IF x = k THEN v ELSE m[x]]

NoCur == [status |-> "skip", partition_offset |-> 0, is_game_partition |-> FALSE,
          key |-> 0, ticket |-> INVALID_TICKET, tmd |-> INVALID_TMD]

\* A variant of EntryOutcome without the test of the size of the title key.
EntryOutcome_KeepsAnyKey(image, table_offset, index, game) ==
  LET read_buffer == ReadSwapped32(image, table_offset + Mul8_u32(index))
      partition_offset == ShiftLeft2_u64(read_buffer.v)
      part_type == ReadSwapped32(image, table_offset + Mul8_u32(index) + 4)
      is_game_partition == game = PARTITION_NONE /\ part_type.ok /\ part_type.v = 0
      ticket == TicketAt(image, partition_offset)
      tmd_size == ReadSwapped32(image, partition_offset + 676)
      tmd_address == ReadSwapped32(image, partition_offset + 680)
      address == ShiftLeft2_u32(tmd_address.v)
  IN IF ~read_buffer.ok THEN NoCur
     ELSE IF ~ReaderRead(image, partition_offset, TICKET_SIZE) THEN NoCur
     ELSE IF ~TicketIsValid(ticket) THEN NoCur
     ELSE IF ~tmd_size.ok \/ ~tmd_address.ok THEN NoCur
     ELSE IF ~IsValidTMDSize(tmd_size.v) THEN [NoCur EXCEPT !.status = "alert"]
     ELSE IF ~ReaderRead(image, partition_offset + address, tmd_size.v) THEN NoCur
     ELSE [status |-> "store", partition_offset |-> partition_offset,
           is_game_partition |-> is_game_partition, key |-> ticket.key,
           ticket |-> ticket,
           tmd |-> [at |-> partition_offset + address, size |-> tmd_size.v]]

\* One pass through the body of the inner loop up to the point where the
\* partition is stored: "skip" for a continue, "alert" for the continue after
\* PanicAlert, "store" when everything was read.
EntryOutcome(image, table_offset, index, game) ==
  LET read_buffer == ReadSwapped32(image, table_offset + Mul8_u32(index))
      partition_offset == ShiftLeft2_u64(read_buffer.v)
      part_type == ReadSwapped32(image, table_offset + Mul8_u32(index) + 4)
      is_game_partition == game = PARTITION_NONE /\ part_type.ok /\ part_type.v = 0
      ticket == TicketAt(image, partition_offset)
      tmd_size == ReadSwapped32(image, partition_offset + 676)
      tmd_address == ReadSwapped32(image, partition_offset + 680)
      address == ShiftLeft2_u32(tmd_address.v)
  IN IF ~read_buffer.ok THEN NoCur
     ELSE IF ~ReaderRead(image, partition_offset, TICKET_SIZE) THEN NoCur
     ELSE IF ~TicketIsValid(ticket) THEN NoCur
     ELSE IF ~tmd_size.ok \/ ~tmd_address.ok THEN NoCur
     ELSE IF ~IsValidTMDSize(tmd_size.v) THEN [NoCur EXCEPT !.status = "alert"]
     ELSE IF ~ReaderRead(image, partition_offset + address, tmd_size.v) THEN NoCur
     ELSE IF ticket.keyLen # 16 THEN NoCur
     ELSE [status |-> "store", partition_offset |-> partition_offset,
           is_game_partition |-> is_game_partition, key |-> ticket.key,
           ticket |-> ticket,
           tmd |-> [at |-> partition_offset + address, size |-> tmd_size.v]]

\* The plaintext buffer before anything was decrypted into it.
UninitData == [key |-> -1, iv |-> 0, src |-> 0, len |-> 0]

NoCall == [op |-> "none", partition |-> PARTITION_NONE, offset |-> 0, length |-> 0,
           ok |-> FALSE, bytes |-> << >>, reads |-> 0, decrypts |-> 0, io_failed |-> FALSE,
           fail_kind |-> "none", fail_at |-> <<0, 0>>, n_clusters |-> 0,
           ticket |-> INVALID_TICKET, tmd |-> INVALID_TMD, title_id |-> [ok |-> FALSE, v |-> 0],
           pre_block |-> UINT64_MAX, pre_data |-> UninitData,
           offset64 |-> <<0, 0, 0, 0>>, raw_offset |-> <<0, 0, 0, 0>>,
           partitions |-> {}, game_partition |-> PARTITION_NONE]

InitWith(images) ==
  /\ img \in images
  /\ pc = "start"
  /\ partition_group = 0
  /\ number_of_partitions = 0
  /\ partition_table_offset = 0
  /\ i = 0
  /\ cur = NoCur
  /\ m_partition_keys = << >>
  /\ m_partition_tickets = << >>
  /\ m_partition_tmds = << >>
  /\ m_game_partition = PARTITION_NONE
  /\ m_last_decrypted_block = UINT64_MAX
  /\ m_last_decrypted_block_data = UninitData
  /\ alerts = {}
  /\ last = NoCall
  /\ filename = << >>
  /\ escaped = << >>
  /\ unescaped = << >>
  /\ name_pc = "idle"

Init == InitWith(ReadImages)
InitDisc == InitWith(DiscImages)

volume == <<m_partition_keys, m_partition_tickets, m_partition_tmds, m_game_partition>>
cache == <<m_last_decrypted_block, m_last_decrypted_block_data>>
locals == <<partition_group, number_of_partitions, partition_table_offset, i, cur>>

\* A variant of CheckMagic that goes on to the partition table whatever the magic
\* word is.
CheckMagic_IgnoresMagic ==
  /\ pc = "start"
  /\ LET magic == ReadSwapped32(img, 96)
     IN pc' = IF ~magic.ok THEN "done" ELSE "group"
  /\ UNCHANGED <<names, img, locals, volume, cache, alerts, last>>

\* Lines 40-44: the magic word at 0x60.
CheckMagic ==
  /\ pc = "start"
  /\ LET magic == ReadSwapped32(img, 96)
     IN pc' = IF ~magic.ok \/ magic.v # 0 THEN "done" ELSE "group"
  /\ UNCHANGED <<names, img, locals, volume, cache, alerts, last>>

\* Lines 47-58: the head of the outer loop and the two words of the group.
ReadGroupHeader ==
  /\ pc = "group"
  /\ partition_group < NUM_GROUPS
  /\ LET count == ReadSwapped32(img, 262144 + partition_group * 8)
         read_buffer == ReadSwapped32(img, 262144 + partition_group * 8 + 4)
     IN IF ~count.ok \/ ~read_buffer.ok
        THEN /\ partition_group' = partition_group + 1
             /\ UNCHANGED <<pc, number_of_partitions, partition_table_offset, i>>
        ELSE /\ number_of_partitions' = count.v
             /\ partition_table_offset' = ShiftLeft2_u64(read_buffer.v)
             /\ i' = 0
             /\ pc' = "entry"
             /\ UNCHANGED partition_group
  /\ UNCHANGED <<names, img, cur, volume, cache, alerts, last>>

\* Line 47: the outer loop ends.
FinishConstruction ==
  /\ pc = "group"
  /\ partition_group >= NUM_GROUPS
  /\ pc' = "done"
  /\ UNCHANGED <<names, img, locals, volume, cache, alerts, last>>

\* A variant of ProcessEntry that assigns the game partition where its type is
\* read (line 70), before the ticket and the TMD are validated.
ProcessEntry_AssignsGameEarly ==
  /\ pc = "entry"
  /\ i < number_of_partitions
  /\ LET out == EntryOutcome(img, partition_table_offset, i, m_game_partition)
         read_buffer == ReadSwapped32(img, partition_table_offset + Mul8_u32(i))
         part_type == ReadSwapped32(img, partition_table_offset + Mul8_u32(i) + 4)
     IN /\ alerts' = IF out.status = "alert" THEN alerts \cup {<<partition_group, i>>}
                     ELSE alerts
        /\ m_game_partition' =
             IF /\ read_buffer.ok /\ part_type.ok /\ part_type.v = 0
                /\ m_game_partition = PARTITION_NONE
             THEN ShiftLeft2_u64(read_buffer.v)
             ELSE m_game_partition
        /\ IF out.status = "store"
           THEN /\ cur' = out
                /\ pc' = "store_key"
                /\ UNCHANGED i
           ELSE /\ i' = i + 1
                /\ UNCHANGED <<cur, pc>>
  /\ UNCHANGED <<names, img, partition_group, number_of_partitions, partition_table_offset,
                 m_partition_keys, m_partition_tickets, m_partition_tmds, cache, last>>

\* A variant of ProcessEntry that gives up the whole discovery at the first entry
\* that fails a step.
ProcessEntry_AbortsOnFailure ==
  /\ pc = "entry"
  /\ i < number_of_partitions
  /\ LET out == EntryOutcome(img, partition_table_offset, i, m_game_partition)
     IN /\ alerts' = IF out.status = "alert" THEN alerts \cup {<<partition_group, i>>}
                     ELSE alerts
        /\ IF out.status = "store"
           THEN /\ cur' = out
                /\ pc' = "store_key"
                /\ UNCHANGED i
           ELSE /\ pc' = "done"
                /\ UNCHANGED <<cur, i>>
  /\ UNCHANGED <<names, img, partition_group, number_of_partitions, partition_table_offset,
                 volume, cache, last>>

\* Lines 60-104: one entry, up to the point where it is stored.
ProcessEntry ==
  /\ pc = "entry"
  /\ i < number_of_partitions
  /\ LET out == EntryOutcome(img, partition_table_offset, i, m_game_partition)
     IN /\ alerts' = IF out.status = "alert" THEN alerts \cup {<<partition_group, i>>}
                     ELSE alerts
        /\ IF out.status = "store"
           THEN /\ cur' = out
                /\ pc' = "store_key"
                /\ UNCHANGED i
           ELSE /\ i' = i + 1
                /\ UNCHANGED <<cur, pc>>
  /\ UNCHANGED <<names, img, partition_group, number_of_partitions, partition_table_offset,
                 volume, cache, last>>

\* Line 60: the inner loop ends.
FinishGroup ==
  /\ pc = "entry"
  /\ i >= number_of_partitions
  /\ partition_group' = partition_group + 1
  /\ pc' = "group"
  /\ UNCHANGED <<names, img, number_of_partitions, partition_table_offset, i, cur,
                 volume, cache, alerts, last>>

\* Line 109
StoreKey ==
  /\ pc = "store_key"
  /\ m_partition_keys' = MapPut(m_partition_keys, cur.partition_offset, cur.key)
  /\ pc' = "store_ticket"
  /\ UNCHANGED <<names, img, locals, m_partition_tickets, m_partition_tmds, m_game_partition,
                 cache, alerts, last>>

\* Line 110
StoreTicket ==
  /\ pc = "store_ticket"
  /\ m_partition_tickets' = MapPut(m_partition_tickets, cur.partition_offset, cur.ticket)
  /\ pc' = "store_tmd"
  /\ UNCHANGED <<names, img, locals, m_partition_keys, m_partition_tmds, m_game_partition,
                 cache, alerts, last>>

\* Line 111
StoreTMD ==
  /\ pc = "store_tmd"
  /\ m_partition_tmds' = MapPut(m_partition_tmds, cur.partition_offset, cur.tmd)
  /\ pc' = "store_game"
  /\ UNCHANGED <<names, img, locals, m_partition_keys, m_partition_tickets, m_game_partition,
                 cache, alerts, last>>

\* A variant of GamePartitionAfter that takes the first stored partition, whatever
\* its type.
GamePartitionAfter_AnyType(game, c) ==
  IF game = PARTITION_NONE THEN c.partition_offset ELSE game

\* Lines 112-113, and the i++ of line 60.
GamePartitionAfter(game, c) == IF c.is_game_partition THEN c.partition_offset ELSE game

StoreGamePartition ==
  /\ pc = "store_game"
  /\ m_game_partition' = GamePartitionAfter(m_game_partition, cur)
  /\ i' = i + 1
  /\ pc' = "entry"
  /\ UNCHANGED <<names, img, partition_group, number_of_partitions, partition_table_offset, cur,
                 m_partition_keys, m_partition_tickets, m_partition_tmds,
                 cache, alerts, last>>

NextDisc ==
  \/ CheckMagic
  \/ ReadGroupHeader
  \/ FinishConstruction
  \/ ProcessEntry
  \/ FinishGroup
  \/ StoreKey
  \/ StoreTicket
  \/ StoreTMD
  \/ StoreGamePartition

SpecDisc == InitDisc /\ [][NextDisc]_vars

(***************************************************************************)
(* mbedtls, symbolically.  A plaintext is named by what it was decrypted   *)
(* from; the image says what an authored cluster decrypts to.              *)
(***************************************************************************)
ZeroIV == 0 - 1                          \* u8 IV[16] = {0}: not an offset of the image

\* mbedtls_aes_crypt_cbc(aes_context, MBEDTLS_AES_DECRYPT, length, iv, input, output):
\* iv and input are the image offsets the bytes were read from.
AesCbcDecrypt(aes_context, length, iv, input) ==
  [key |-> aes_context, iv |-> iv, src |-> input, len |-> length]

\* memcpy of `size` bytes of a plaintext from `from`: a run of bytes.
Slice(data, from, size) == data @@ [lo |-> from, hi |-> from + size]

\* The raw bytes of the image the blob reader returns.
RawBytes(offset, length) ==
  IF length = 0 THEN << >>
  ELSE << [key |-> 0, iv |-> 0, src |-> 0, len |-> 0, lo |-> offset, hi |-> offset + length] >>

\* Writing a run behind the bytes already in the output buffer.
AppendRun(bytes, run) ==
  IF run.lo = run.hi THEN bytes
  ELSE IF bytes # << >>
          /\ LET z == bytes[Len(bytes)]
             IN z.key = run.key /\ z.iv = run.iv /\ z.src = run.src /\ z.len = run.len
                /\ z.hi = run.lo
       THEN [bytes EXCEPT ![Len(bytes)].hi = run.hi]
       ELSE Append(bytes, run)

RECURSIVE Concat(_, _)
Concat(a, b) == IF b = << >> THEN a ELSE Concat(AppendRun(a, Head(b)), Tail(b))

Min(a, b) == IF a < b THEN a ELSE b

\* The `size` bytes from position `from` of a byte string.
RECURSIVE SubBytes(_, _, _)
SubBytes(bytes, from, size) ==
  IF size = 0 \/ bytes = << >> THEN << >>
  ELSE LET h == Head(bytes)
           l == h.hi - h.lo
       IN IF from >= l THEN SubBytes(Tail(bytes), from - l, size)
          ELSE LET take == Min(size, l - from)
               IN Concat(<< [h EXCEPT !.lo = h.lo + from, !.hi = h.lo + from + take] >>,
                         SubBytes(Tail(bytes), 0, size - take))

\* The cluster of the image a data plaintext / a metadata plaintext was authored as,
\* or nothing: decrypted under the authoring key, with the IV the format names.
AuthoredData(image, data) ==
  {c \in DOMAIN image.cl :
     /\ data.src = c + BLOCK_HEADER_SIZE /\ data.iv = c + 976 /\ data.len = BLOCK_DATA_SIZE
     /\ data.key = image.cl[c].dataKey}
AuthoredMD(image, md) ==
  {c \in DOMAIN image.cl :
     /\ md.src = c /\ md.iv = ZeroIV /\ md.len = BLOCK_HEADER_SIZE
     /\ md.key = image.cl[c].mdKey}

\* mbedtls_sha1 of 0x400 bytes: the hash the cluster's author stored for an
\* untouched sub-block of an authored plaintext, a hash of its own for any
\* other byte string.
Sha1(image, bytes) ==
  IF /\ Len(bytes) = 1
     /\ AuthoredData(image, bytes[1]) # {}
     /\ bytes[1].lo % 1024 = 0 /\ bytes[1].hi = bytes[1].lo + 1024
     /\ (bytes[1].lo \div 1024) \notin image.cl[bytes[1].src - BLOCK_HEADER_SIZE].flip
  THEN [cl |-> bytes[1].src - BLOCK_HEADER_SIZE, blk |-> bytes[1].lo \div 1024, of |-> << >>]
  ELSE [cl |-> 0 - 1, blk |-> 0, of |-> bytes]

\* clusterMD + hashID * 20: the stored hash of sub-block hashID.
MDHash(image, md, hashID) ==
  IF AuthoredMD(image, md) # {}
  THEN [cl |-> md.src, blk |-> hashID, of |-> << >>]
  ELSE [cl |-> 0 - 2, blk |-> hashID, of |-> << >>]

\* Some byte of clusterMD[0x26C..0x280) is not zero.
MDPadNonZero(image, md) ==
  IF AuthoredMD(image, md) # {} THEN image.cl[md.src].pad # 0 ELSE TRUE

(***************************************************************************)
(* VolumeWii::Read.                                                        *)
(***************************************************************************)
ReadResult(ok, bytes, block, data, reads, decrypts, io_failed) ==
  [ok |-> ok, bytes |-> bytes, block |-> block, data |-> data,
   reads |-> reads, decrypts |-> decrypts, io_failed |-> io_failed]

\* A variant of ReadLoop that records the cluster as the cached one before the
\* read of its ciphertext is known to have succeeded.
RECURSIVE ReadLoop_MarksBlockBeforeRead(_, _, _, _, _, _, _, _, _)
ReadLoop_MarksBlockBeforeRead(image, aes_context, partition, block, data, ReadOffset, Length, bytes, fetched) ==
  IF Length <= 0 THEN ReadResult(TRUE, bytes, block, data, fetched, fetched, FALSE)
  ELSE
    LET block_offset_on_disc ==
          partition + PARTITION_DATA_OFFSET + (ReadOffset \div BLOCK_DATA_SIZE) * BLOCK_TOTAL_SIZE
        data_offset_in_block == ReadOffset % BLOCK_DATA_SIZE
        miss == block # block_offset_on_disc
    IN IF miss /\ ~ReaderRead(image, block_offset_on_disc, BLOCK_TOTAL_SIZE)
       THEN ReadResult(FALSE, bytes, block_offset_on_disc, data, fetched + 1, fetched, TRUE)
       ELSE
         LET new_data == IF miss
                         THEN AesCbcDecrypt(aes_context, BLOCK_DATA_SIZE,
                                            block_offset_on_disc + 976,
                                            block_offset_on_disc + BLOCK_HEADER_SIZE)
                         ELSE data
             copy_size == Min(Length, BLOCK_DATA_SIZE - data_offset_in_block)
         IN ReadLoop_MarksBlockBeforeRead(
                     image, aes_context, partition, block_offset_on_disc, new_data,
                     ReadOffset + copy_size, Length - copy_size,
                     AppendRun(bytes, Slice(new_data, data_offset_in_block, copy_size)),
                     IF miss THEN fetched + 1 ELSE fetched)

\* A variant of ReadLoop whose copy size ignores the offset within the cluster.
RECURSIVE ReadLoop_CopiesPastCluster(_, _, _, _, _, _, _, _, _)
ReadLoop_CopiesPastCluster(image, aes_context, partition, block, data, ReadOffset, Length, bytes, fetched) ==
  IF Length <= 0 THEN ReadResult(TRUE, bytes, block, data, fetched, fetched, FALSE)
  ELSE
    LET block_offset_on_disc ==
          partition + PARTITION_DATA_OFFSET + (ReadOffset \div BLOCK_DATA_SIZE) * BLOCK_TOTAL_SIZE
        data_offset_in_block == ReadOffset % BLOCK_DATA_SIZE
        miss == block # block_offset_on_disc
    IN IF miss /\ ~ReaderRead(image, block_offset_on_disc, BLOCK_TOTAL_SIZE)
       THEN ReadResult(FALSE, bytes, block, data, fetched + 1, fetched, TRUE)
       ELSE
         LET new_data == IF miss
                         THEN AesCbcDecrypt(aes_context, BLOCK_DATA_SIZE,
                                            block_offset_on_disc + 976,
                                            block_offset_on_disc + BLOCK_HEADER_SIZE)
                         ELSE data
             copy_size == Min(Length, BLOCK_DATA_SIZE)
         IN ReadLoop_CopiesPastCluster(
                     image, aes_context, partition, block_offset_on_disc, new_data,
                     ReadOffset + copy_size, Length - copy_size,
                     AppendRun(bytes, Slice(new_data, data_offset_in_block, copy_size)),
                     IF miss THEN fetched + 1 ELSE fetched)

\* A variant of ReadLoop that fetches and decrypts the cluster whether or not the
\* cache holds it.
RECURSIVE ReadLoop_AlwaysFetches(_, _, _, _, _, _, _, _, _)
ReadLoop_AlwaysFetches(image, aes_context, partition, block, data, ReadOffset, Length, bytes, fetched) ==
  IF Length <= 0 THEN ReadResult(TRUE, bytes, block, data, fetched, fetched, FALSE)
  ELSE
    LET block_offset_on_disc ==
          partition + PARTITION_DATA_OFFSET + (ReadOffset \div BLOCK_DATA_SIZE) * BLOCK_TOTAL_SIZE
        data_offset_in_block == ReadOffset % BLOCK_DATA_SIZE
    IN IF ~ReaderRead(image, block_offset_on_disc, BLOCK_TOTAL_SIZE)
       THEN ReadResult(FALSE, bytes, block, data, fetched + 1, fetched, TRUE)
       ELSE
         LET new_data == AesCbcDecrypt(aes_context, BLOCK_DATA_SIZE,
                                       block_offset_on_disc + 976,
                                       block_offset_on_disc + BLOCK_HEADER_SIZE)
             copy_size == Min(Length, BLOCK_DATA_SIZE - data_offset_in_block)
         IN ReadLoop_AlwaysFetches(
                     image, aes_context, partition, block_offset_on_disc, new_data,
                     ReadOffset + copy_size, Length - copy_size,
                     AppendRun(bytes, Slice(new_data, data_offset_in_block, copy_size)),
                     fetched + 1)

\* A variant of ReadLoop that tests the remaining length at the end of the body
\* (do ... while): a read of length 0 fetches a cluster.
RECURSIVE ReadLoop_TestsLengthLast(_, _, _, _, _, _, _, _, _)
ReadLoop_TestsLengthLast(image, aes_context, partition, block, data, ReadOffset, Length, bytes, fetched) ==
  LET block_offset_on_disc ==
        partition + PARTITION_DATA_OFFSET + (ReadOffset \div BLOCK_DATA_SIZE) * BLOCK_TOTAL_SIZE
      data_offset_in_block == ReadOffset % BLOCK_DATA_SIZE
      miss == block # block_offset_on_disc
  IN IF miss /\ ~ReaderRead(image, block_offset_on_disc, BLOCK_TOTAL_SIZE)
     THEN ReadResult(FALSE, bytes, block, data, fetched + 1, fetched, TRUE)
     ELSE
       LET new_data == IF miss
                       THEN AesCbcDecrypt(aes_context, BLOCK_DATA_SIZE,
                                          block_offset_on_disc + 976,
                                          block_offset_on_disc + BLOCK_HEADER_SIZE)
                       ELSE data
           copy_size == Min(Length, BLOCK_DATA_SIZE - data_offset_in_block)
           new_bytes == AppendRun(bytes, Slice(new_data, data_offset_in_block, copy_size))
           new_fetched == IF miss THEN fetched + 1 ELSE fetched
       IN IF Length - copy_size <= 0
          THEN ReadResult(TRUE, new_bytes, block_offset_on_disc, new_data,
                          new_fetched, new_fetched, FALSE)
          ELSE ReadLoop_TestsLengthLast(
                     image, aes_context, partition, block_offset_on_disc, new_data,
                     ReadOffset + copy_size, Length - copy_size, new_bytes, new_fetched)

\* A variant of ReadLoop that empties the cache when the fetch of a cluster fails.
RECURSIVE ReadLoop_ClearsCacheOnFailure(_, _, _, _, _, _, _, _, _)
ReadLoop_ClearsCacheOnFailure(image, aes_context, partition, block, data, ReadOffset, Length, bytes, fetched) ==
  IF Length <= 0 THEN ReadResult(TRUE, bytes, block, data, fetched, fetched, FALSE)
  ELSE
    LET block_offset_on_disc ==
          partition + PARTITION_DATA_OFFSET + (ReadOffset \div BLOCK_DATA_SIZE) * BLOCK_TOTAL_SIZE
        data_offset_in_block == ReadOffset % BLOCK_DATA_SIZE
        miss == block # block_offset_on_disc
    IN IF miss /\ ~ReaderRead(image, block_offset_on_disc, BLOCK_TOTAL_SIZE)
       THEN ReadResult(FALSE, bytes, UINT64_MAX, data, fetched + 1, fetched, TRUE)
       ELSE
         LET new_data == IF miss
                         THEN AesCbcDecrypt(aes_context, BLOCK_DATA_SIZE,
                                            block_offset_on_disc + 976,
                                            block_offset_on_disc + BLOCK_HEADER_SIZE)
                         ELSE data
             copy_size == Min(Length, BLOCK_DATA_SIZE - data_offset_in_block)
         IN ReadLoop_ClearsCacheOnFailure(
                     image, aes_context, partition, block_offset_on_disc, new_data,
                     ReadOffset + copy_size, Length - copy_size,
                     AppendRun(bytes, Slice(new_data, data_offset_in_block, copy_size)),
                     IF miss THEN fetched + 1 ELSE fetched)

\* Lines 134-172: the loop.  block, data: m_last_decrypted_block and its buffer.
RECURSIVE ReadLoop(_, _, _, _, _, _, _, _, _)
ReadLoop(image, aes_context, partition, block, data, ReadOffset, Length, bytes, fetched) ==
  IF Length <= 0 THEN ReadResult(TRUE, bytes, block, data, fetched, fetched, FALSE)
  ELSE
    LET block_offset_on_disc ==
          partition + PARTITION_DATA_OFFSET + (ReadOffset \div BLOCK_DATA_SIZE) * BLOCK_TOTAL_SIZE
        data_offset_in_block == ReadOffset % BLOCK_DATA_SIZE
        miss == block # block_offset_on_disc
    IN IF miss /\ ~ReaderRead(image, block_offset_on_disc, BLOCK_TOTAL_SIZE)
       THEN ReadResult(FALSE, bytes, block, data, fetched + 1, fetched, TRUE)
       ELSE
         LET new_data == IF miss
                         THEN AesCbcDecrypt(aes_context, BLOCK_DATA_SIZE,
                                            block_offset_on_disc + 976,
                                            block_offset_on_disc + BLOCK_HEADER_SIZE)
                         ELSE data
             copy_size == Min(Length, BLOCK_DATA_SIZE - data_offset_in_block)
         IN ReadLoop(image, aes_context, partition, block_offset_on_disc, new_data,
                     ReadOffset + copy_size, Length - copy_size,
                     AppendRun(bytes, Slice(new_data, data_offset_in_block, copy_size)),
                     IF miss THEN fetched + 1 ELSE fetched)

\* A variant of Read without the lookup of the partition: a partition that has no
\* key is read as the raw image.
Read_WithoutLookup(image, keys, block, data, ReadOffset, Length, partition) ==
  IF partition = PARTITION_NONE \/ partition \notin DOMAIN keys
  THEN LET ok == ReaderRead(image, ReadOffset, Length)
       IN ReadResult(ok, IF ok THEN RawBytes(ReadOffset, Length) ELSE << >>,
                     block, data, 1, 0, ~ok)
  ELSE ReadLoop(image, keys[partition], partition, block, data, ReadOffset, Length, << >>, 0)

\* A variant of Read that looks the partition up before it tests for
\* PARTITION_NONE, which has no key.
Read_LooksUpFirst(image, keys, block, data, ReadOffset, Length, partition) ==
  IF partition \notin DOMAIN keys
  THEN ReadResult(FALSE, << >>, block, data, 0, 0, FALSE)
  ELSE ReadLoop(image, keys[partition], partition, block, data, ReadOffset, Length, << >>, 0)

\* Lines 122-173.
Read(image, keys, block, data, ReadOffset, Length, partition) ==
  IF partition = PARTITION_NONE
  THEN LET ok == ReaderRead(image, ReadOffset, Length)
       IN ReadResult(ok, IF ok THEN RawBytes(ReadOffset, Length) ELSE << >>,
                     block, data, 1, 0, ~ok)
  ELSE IF partition \notin DOMAIN keys
  THEN ReadResult(FALSE, << >>, block, data, 0, 0, FALSE)
  ELSE ReadLoop(image, keys[partition], partition, block, data, ReadOffset, Length, << >>, 0)

(***************************************************************************)
(* VolumeWii::CheckIntegrity.                                              *)
(***************************************************************************)
CheckResult(ok, kind, clusterID, hashID, nClusters, block, data, reads, decrypts, io_failed) ==
  [ok |-> ok, fail_kind |-> kind, fail_at |-> <<clusterID, hashID>>, n_clusters |-> nClusters,
   block |-> block, data |-> data, reads |-> reads, decrypts |-> decrypts,
   io_failed |-> io_failed]

\* A variant of FirstBadHash that does not compare the last hash.
RECURSIVE FirstBadHash_SkipsLast(_, _, _, _)
FirstBadHash_SkipsLast(image, clusterData, clusterMD, hashID) ==
  IF hashID >= NUM_HASHES - 1 THEN NUM_HASHES
  ELSE IF Sha1(image, SubBytes(clusterData, hashID * 1024, 1024)) # MDHash(image, clusterMD, hashID)
  THEN hashID
  ELSE FirstBadHash_SkipsLast(image, clusterData, clusterMD, hashID + 1)

\* Lines 381-394: the first hash that differs, or NUM_HASHES.
RECURSIVE FirstBadHash(_, _, _, _)
FirstBadHash(image, clusterData, clusterMD, hashID) ==
  IF hashID >= NUM_HASHES THEN NUM_HASHES
  ELSE IF Sha1(image, SubBytes(clusterData, hashID * 1024, 1024)) # MDHash(image, clusterMD, hashID)
  THEN hashID
  ELSE FirstBadHash(image, clusterData, clusterMD, hashID + 1)

\* A variant of CheckLoop that reads the data of a cluster before it tests whether
\* the cluster is a hole.
RECURSIVE CheckLoop_ReadsDataOfHoles(_, _, _, _, _, _, _, _, _, _)
CheckLoop_ReadsDataOfHoles(image, keys, partition, block, data, clusterID, nClusters, reads, decrypts, io_failed) ==
  IF clusterID >= nClusters
  THEN CheckResult(TRUE, "none", 0, 0, nClusters, block, data, reads, decrypts, io_failed)
  ELSE
    LET clusterOff == partition + PARTITION_DATA_OFFSET + clusterID * 32768
    IN IF ~ReaderRead(image, clusterOff, 1024)
       THEN CheckResult(FALSE, "metadata", clusterID, 0, nClusters, block, data,
                        reads + 1, decrypts, TRUE)
       ELSE
         LET clusterMD == AesCbcDecrypt(keys[partition], 1024, ZeroIV, clusterOff)
             r == Read(image, keys, block, data, clusterID * 31744, 31744, partition)
             hashID == FirstBadHash(image, r.bytes, clusterMD, 0)
         IN IF ~r.ok
            THEN CheckResult(FALSE, "data", clusterID, 0, nClusters, r.block, r.data,
                             reads + 1 + r.reads, decrypts + r.decrypts, TRUE)
            ELSE IF ~MDPadNonZero(image, clusterMD) /\ hashID < NUM_HASHES
            THEN CheckResult(FALSE, "hash", clusterID, hashID, nClusters, r.block, r.data,
                             reads + 1 + r.reads, decrypts + r.decrypts, io_failed)
            ELSE CheckLoop_ReadsDataOfHoles(
                           image, keys, partition, r.block, r.data, clusterID + 1,
                           nClusters, reads + 1 + r.reads, decrypts + r.decrypts,
                           io_failed)

\* Lines 343-395: the loop over the clusters.
RECURSIVE CheckLoop(_, _, _, _, _, _, _, _, _, _)
CheckLoop(image, keys, partition, block, data, clusterID, nClusters, reads, decrypts, io_failed) ==
  IF clusterID >= nClusters
  THEN CheckResult(TRUE, "none", 0, 0, nClusters, block, data, reads, decrypts, io_failed)
  ELSE
    LET clusterOff == partition + PARTITION_DATA_OFFSET + clusterID * 32768
    IN IF ~ReaderRead(image, clusterOff, 1024)
       THEN CheckResult(FALSE, "metadata", clusterID, 0, nClusters, block, data,
                        reads + 1, decrypts, TRUE)
       ELSE
         LET clusterMD == AesCbcDecrypt(keys[partition], 1024, ZeroIV, clusterOff)
         IN IF MDPadNonZero(image, clusterMD)
            THEN CheckLoop(image, keys, partition, block, data, clusterID + 1, nClusters,
                           reads + 1, decrypts, io_failed)
            ELSE
              LET r == Read(image, keys, block, data, clusterID * 31744, 31744, partition)
                  hashID == FirstBadHash(image, r.bytes, clusterMD, 0)
              IN IF ~r.ok
                 THEN CheckResult(FALSE, "data", clusterID, 0, nClusters, r.block, r.data,
                                  reads + 1 + r.reads, decrypts + r.decrypts, TRUE)
                 ELSE IF hashID < NUM_HASHES
                 THEN CheckResult(FALSE, "hash", clusterID, hashID, nClusters, r.block, r.data,
                                  reads + 1 + r.reads, decrypts + r.decrypts, io_failed)
                 ELSE CheckLoop(image, keys, partition, r.block, r.data, clusterID + 1,
                                nClusters, reads + 1 + r.reads, decrypts + r.decrypts,
                                io_failed)

\* Lines 329-398.  uninitialized: what partSizeDiv4 holds when nothing was read
\* into it (line 339 does not look at the result of the read).
CheckIntegrity(image, keys, block, data, partition, uninitialized) ==
  IF partition \notin DOMAIN keys
  THEN CheckResult(FALSE, "unknown", 0, 0, 0, block, data, 0, 0, FALSE)
  ELSE
    LET size_read == ReaderRead(image, partition + 700, 4)
        partSizeDiv4 == IF size_read THEN U32At(image, partition + 700) ELSE uninitialized
        partDataSize == partSizeDiv4 * 4
        nClusters == partDataSize \div 32768
    IN CheckLoop(image, keys, partition, block, data, 0, nClusters, 1, 0, ~size_read)

(***************************************************************************)
(* The accessors.                                                          *)
(***************************************************************************)
\* Lines 196-200
GetTicket(tickets, partition) ==
  IF partition \in DOMAIN tickets THEN tickets[partition] ELSE INVALID_TICKET

\* Lines 202-206
GetTMD(tmds, partition) ==
  IF partition \in DOMAIN tmds THEN tmds[partition] ELSE INVALID_TMD

\* Lines 188-194
GetTitleID(tickets, partition) ==
  LET ticket == GetTicket(tickets, partition)
  IN IF ~TicketIsValid(ticket) THEN [ok |-> FALSE, v |-> 0]
     ELSE [ok |-> TRUE, v |-> TicketGetTitleId(ticket)]

\* Lines 175-181: the keys of m_partition_keys.
GetPartitions == DOMAIN m_partition_keys

\* Lines 183-186
GetGamePartition == m_game_partition

(***************************************************************************)
(* u64 arithmetic.  A u64 is four 16-bit limbs, the most significant       *)
(* first; every operation is modulo 2^64 and says whether it wrapped.      *)
(***************************************************************************)
Limb == 256 * 256

U64(n) == <<0, 0, n \div Limb, n % Limb>>
U64Max == <<Limb - 1, Limb - 1, Limb - 1, Limb - 1>>

\* a + b
Add64(a, b) ==
  LET s4 == a[4] + b[4]
      s3 == a[3] + b[3] + s4 \div Limb
      s2 == a[2] + b[2] + s3 \div Limb
      s1 == a[1] + b[1] + s2 \div Limb
  IN [v |-> <<s1 % Limb, s2 % Limb, s3 % Limb, s4 % Limb>>, wrapped |-> s1 >= Limb]

\* a * k, for k <= 0x8000
Mul64(a, k) ==
  LET m4 == a[4] * k
      m3 == a[3] * k + m4 \div Limb
      m2 == a[2] * k + m3 \div Limb
      m1 == a[1] * k + m2 \div Limb
  IN [v |-> <<m1 % Limb, m2 % Limb, m3 % Limb, m4 % Limb>>, wrapped |-> m1 >= Limb]

\* a / d and a % d, for d <= 0x7C00
DivMod64(a, d) ==
  LET q1 == a[1] \div d
      r1 == a[1] % d
      q2 == (r1 * Limb + a[2]) \div d
      r2 == (r1 * Limb + a[2]) % d
      q3 == (r2 * Limb + a[3]) \div d
      r3 == (r2 * Limb + a[3]) % d
      q4 == (r3 * Limb + a[4]) \div d
      r4 == (r3 * Limb + a[4]) % d
  IN [quot |-> <<q1, q2, q3, q4>>, rem |-> r4]

\* a < b
Less64(a, b) ==
  \E k \in 1 .. 4 : a[k] < b[k] /\ \A j \in 1 .. k - 1 : a[j] = b[j]

\* Lines 208-215.  The result, and whether a sum or the product wrapped.
PartitionOffsetToRawOffset(offset, partition) ==
  IF partition = PARTITION_NONE THEN [v |-> offset, wrapped |-> FALSE]
  ELSE
    LET qr == DivMod64(offset, BLOCK_DATA_SIZE)
        base == Add64(U64(partition), U64(PARTITION_DATA_OFFSET))
        blocks == Mul64(qr.quot, BLOCK_TOTAL_SIZE)
        sum == Add64(base.v, blocks.v)
        raw == Add64(sum.v, U64(qr.rem))
    IN [v |-> raw.v,
        wrapped |-> base.wrapped \/ blocks.wrapped \/ sum.wrapped \/ raw.wrapped]

\* A variant of BlockOffsetOnDisc64 that adds the logical offset itself instead of
\* the offset of its cluster.
BlockOffsetOnDisc64_AddsByteOffset(offset, partition) == Add64(Add64(partition, U64(PARTITION_DATA_OFFSET)).v, offset).v

\* Lines 137-138 on u64 operands: block_offset_on_disc of a logical offset.
BlockOffsetOnDisc64(offset, partition) ==
  Add64(Add64(partition, U64(PARTITION_DATA_OFFSET)).v,
        Mul64(DivMod64(offset, BLOCK_DATA_SIZE).quot, BLOCK_TOTAL_SIZE).v).v

(***************************************************************************)
(* The calls a client makes on the constructed volume.                     *)
(***************************************************************************)
\* Logical offsets as u64: small ones, the largest, the last offsets of the
\* cluster number 2^49 - 1, whose cluster offset is 2^64 - 0x8000, the first
\* offset of the cluster number 2^49 - 15, which is the last cluster below 2^64 of
\* the partition at 0x50000, and 2^64 - 1 - 0x70000.
OffsetArgs64 ==
  {U64(0), U64(BLOCK_DATA_SIZE - 1), U64(BLOCK_DATA_SIZE), U64(2 * BLOCK_DATA_SIZE + 5),
   U64Max,
   Add64(Mul64(<<1, Limb - 1, Limb - 1, Limb - 1>>, BLOCK_DATA_SIZE).v, U64(0)).v,
   Add64(Mul64(<<1, Limb - 1, Limb - 1, Limb - 1>>, BLOCK_DATA_SIZE).v,
         U64(BLOCK_DATA_SIZE - 1)).v,
   Mul64(<<1, Limb - 1, Limb - 1, Limb - 15>>, BLOCK_DATA_SIZE).v,
   <<Limb - 1, Limb - 1, Limb - 8, Limb - 1>>}

PartitionArgs == {PARTITION_NONE, PartA, PartB, PartU}
OffsetArgs == {0, BLOCK_DATA_SIZE - 1, BLOCK_DATA_SIZE, 2 * BLOCK_DATA_SIZE - 1}
LengthArgs == {0, 1, 2, BLOCK_DATA_SIZE}
UninitializedValues == {0, 8192}

Call(op, partition) ==
  [NoCall EXCEPT !.op = op, !.partition = partition,
                 !.pre_block = m_last_decrypted_block,
                 !.pre_data = m_last_decrypted_block_data]

DoRead ==
  /\ pc = "done"
  /\ last.op = "none"
  /\ \E partition \in PartitionArgs, offset \in OffsetArgs, length \in LengthArgs :
       LET r == Read(img, m_partition_keys, m_last_decrypted_block,
                     m_last_decrypted_block_data, offset, length, partition)
       IN /\ m_last_decrypted_block' = r.block
          /\ m_last_decrypted_block_data' = r.data
          /\ last' = [Call("Read", partition) EXCEPT
                        !.offset = offset, !.length = length, !.ok = r.ok, !.bytes = r.bytes,
                        !.reads = r.reads, !.decrypts = r.decrypts, !.io_failed = r.io_failed]
  /\ UNCHANGED <<names, img, pc, locals, volume, alerts>>

DoCheckIntegrity ==
  /\ pc = "done"
  /\ last.op = "none"
  /\ \E partition \in PartitionArgs, uninitialized \in UninitializedValues :
       LET r == CheckIntegrity(img, m_partition_keys, m_last_decrypted_block,
                               m_last_decrypted_block_data, partition, uninitialized)
       IN /\ m_last_decrypted_block' = r.block
          /\ m_last_decrypted_block_data' = r.data
          /\ last' = [Call("CheckIntegrity", partition) EXCEPT
                        !.ok = r.ok, !.reads = r.reads, !.decrypts = r.decrypts,
                        !.io_failed = r.io_failed, !.fail_kind = r.fail_kind,
                        !.fail_at = r.fail_at, !.n_clusters = r.n_clusters]
  /\ UNCHANGED <<names, img, pc, locals, volume, alerts>>

\* A variant of DoGetTicket that looks the ticket up with operator[], which
\* inserts a default-constructed ticket for a partition the map does not have.
DoGetTicket_InsertsDefault ==
  /\ pc = "done"
  /\ last.op = "none"
  /\ \E partition \in PartitionArgs :
       /\ last' = [Call("GetTicket", partition) EXCEPT
                     !.ticket = GetTicket(m_partition_tickets, partition),
                     !.ok = TicketIsValid(GetTicket(m_partition_tickets, partition))]
       /\ m_partition_tickets' =
            IF partition \in DOMAIN m_partition_tickets THEN m_partition_tickets
            ELSE MapPut(m_partition_tickets, partition, INVALID_TICKET)
  /\ UNCHANGED <<names, img, pc, locals, m_partition_keys, m_partition_tmds, m_game_partition,
                 cache, alerts>>

DoGetTicket ==
  /\ pc = "done"
  /\ last.op = "none"
  /\ \E partition \in PartitionArgs :
       last' = [Call("GetTicket", partition) EXCEPT
                  !.ticket = GetTicket(m_partition_tickets, partition),
                  !.ok = TicketIsValid(GetTicket(m_partition_tickets, partition))]
  /\ UNCHANGED <<names, img, pc, locals, volume, cache, alerts>>

DoGetTMD ==
  /\ pc = "done"
  /\ last.op = "none"
  /\ \E partition \in PartitionArgs :
       last' = [Call("GetTMD", partition) EXCEPT
                  !.tmd = GetTMD(m_partition_tmds, partition),
                  !.ok = TMDIsValid(GetTMD(m_partition_tmds, partition))]
  /\ UNCHANGED <<names, img, pc, locals, volume, cache, alerts>>

DoGetTitleID ==
  /\ pc = "done"
  /\ last.op = "none"
  /\ \E partition \in PartitionArgs :
       last' = [Call("GetTitleID", partition) EXCEPT
                  !.title_id = GetTitleID(m_partition_tickets, partition),
                  !.ok = GetTitleID(m_partition_tickets, partition).ok]
  /\ UNCHANGED <<names, img, pc, locals, volume, cache, alerts>>

DoGetPartitions ==
  /\ pc = "done"
  /\ last.op = "none"
  /\ last' = [Call("GetPartitions", PARTITION_NONE) EXCEPT !.partitions = GetPartitions]
  /\ UNCHANGED <<names, img, pc, locals, volume, cache, alerts>>

DoGetGamePartition ==
  /\ pc = "done"
  /\ last.op = "none"
  /\ last' = [Call("GetGamePartition", PARTITION_NONE) EXCEPT
               !.game_partition = GetGamePartition]
  /\ UNCHANGED <<names, img, pc, locals, volume, cache, alerts>>

DoPartitionOffsetToRawOffset ==
  /\ pc = "done"
  /\ last.op = "none"
  /\ \E partition \in PartitionArgs, offset \in OffsetArgs64 :
       last' = [Call("PartitionOffsetToRawOffset", partition) EXCEPT
                  !.offset64 = offset,
                  !.raw_offset = PartitionOffsetToRawOffset(offset, partition).v]
  /\ UNCHANGED <<names, img, pc, locals, volume, cache, alerts>>

\* The call returns: the caller has its result and may call again.
Return ==
  /\ pc = "done"
  /\ last.op # "none"
  /\ last' = NoCall
  /\ UNCHANGED <<names, img, pc, locals, volume, cache, alerts>>

Next ==
  \/ CheckMagic
  \/ ReadGroupHeader
  \/ FinishConstruction
  \/ ProcessEntry
  \/ FinishGroup
  \/ StoreKey
  \/ StoreTicket
  \/ StoreTMD
  \/ StoreGamePartition
  \/ DoRead
  \/ DoCheckIntegrity
  \/ DoGetTicket
  \/ DoGetTMD
  \/ DoGetTitleID
  \/ DoGetPartitions
  \/ DoGetGamePartition
  \/ DoPartitionOffsetToRawOffset
  \/ Return

Spec == Init /\ [][Next]_vars

(***************************************************************************)
(* Common::EscapeFileName and Common::UnescapeFileName (NandPaths.cpp).    *)
(* A std::string is a sequence of bytes; position p of the code is index   *)
(* p + 1 here.                                                             *)
(***************************************************************************)
\* std::string::find(src, pos): the first index >= pos where src starts, or 0.
Find(str, src, pos) ==
  LET K == {k \in pos .. Len(str) - Len(src) + 1 : SubSeq(str, k, k + Len(src) - 1) = src}
  IN IF K = {} THEN 0 ELSE CHOOSE k \in K : \A j \in K : k <= j

\* std::string::replace(pos, count, dest).
Replace(str, pos, count, dest) ==
  SubSeq(str, 1, pos - 1) \o dest \o SubSeq(str, pos + count, Len(str))

\* ReplaceAll of StringUtil: from left to right, the search going on behind each
\* replacement.
RECURSIVE ReplaceFrom(_, _, _, _)
ReplaceFrom(result, src, dest, pos) ==
  LET k == Find(result, src, pos)
  IN IF k = 0 THEN result
     ELSE ReplaceFrom(Replace(result, k, Len(src), dest), src, dest, k + Len(dest))

ReplaceAll(str, src, dest) == IF src = dest THEN str ELSE ReplaceFrom(str, src, dest, 1)

\* The digit of 0 .. 15 in lower case, as %x prints it.
HexDigit(d) == IF d < 10 THEN 48 + d ELSE 87 + d

\* StringFromFormat("__%02x__", c) for a char c of 0 .. 127.
FormatEscape(c) == <<95, 95, HexDigit(c \div 16), HexDigit(c % 16), 95, 95>>

\* The value of a hexadecimal digit, or -1.
HexValue(c) ==
  IF c \in 48 .. 57 THEN c - 48
  ELSE IF c \in 97 .. 102 THEN c - 87
  ELSE IF c \in 65 .. 70 THEN c - 55
  ELSE 0 - 1

\* AsciiToHex of StringUtil on a string of two bytes: strtoul in base 16 on the C
\* string, refused when it starts with '-' or when the number does not end the
\* string.  White space and '+' may precede the digits, and a NUL ends the string.
AsciiToHex(str) ==
  LET a == str[1]
      b == str[2]
  IN IF a = 0 THEN [ok |-> TRUE, v |-> 0]
     ELSE IF HexValue(a) >= 0 /\ HexValue(b) >= 0
     THEN [ok |-> TRUE, v |-> 16 * HexValue(a) + HexValue(b)]
     ELSE IF HexValue(a) >= 0 /\ b = 0 THEN [ok |-> TRUE, v |-> HexValue(a)]
     ELSE IF a \in (9 .. 13) \cup {32, 43} /\ HexValue(b) >= 0
     THEN [ok |-> TRUE, v |-> HexValue(b)]
     ELSE [ok |-> FALSE, v |-> 0]

\* Line 63: the name has no byte other than '.'.
AllDots(str) == \A k \in DOMAIN str : str[k] = 46

\* Lines 70-71: " * / : < > ? \ | and 0x7f.
chars_to_replace == {34, 42, 47, 58, 60, 62, 63, 92, 124, 127}

\* Lines 72-80: the loop over the bytes.
RECURSIVE EscapeChars(_, _)
EscapeChars(str, result) ==
  IF str = << >> THEN result
  ELSE LET c == Head(str)
       IN EscapeChars(Tail(str),
                      IF (c >= 0 /\ c <= 31) \/ c \in chars_to_replace
                      THEN result \o FormatEscape(c)
                      ELSE Append(result, c))

\* A variant of EscapeFileName that escapes a double underscore as one underscore.
EscapeFileName_EscapesOneUnderscore(str) == IF AllDots(str) THEN ReplaceAll(str, <<46>>, <<95, 95, 50, 101, 95, 95>>) ELSE EscapeChars(ReplaceAll(str, <<95, 95>>, <<95, 95, 53, 102, 95, 95>>), << >>)

\* Lines 60-83.  "__2e__" and "__5f____5f__" are the literals of the code.
EscapeFileName(str) ==
  IF AllDots(str)
  THEN ReplaceAll(str, <<46>>, <<95, 95, 50, 101, 95, 95>>)
  ELSE EscapeChars(ReplaceAll(str, <<95, 95>>,
                              <<95, 95, 53, 102, 95, 95, 95, 95, 53, 102, 95, 95>>),
                   << >>)

\* Lines 104-112: the loop, from position pos.
RECURSIVE UnescapeFrom(_, _)
UnescapeFrom(result, pos) ==
  LET k == Find(result, <<95, 95>>, pos)
  IN IF k = 0 THEN result
     ELSE IF k + 5 <= Len(result) /\ result[k + 4] = 95 /\ result[k + 5] = 95
             /\ AsciiToHex(SubSeq(result, k + 2, k + 3)).ok
     THEN UnescapeFrom(Replace(result, k, 6,
                               <<AsciiToHex(SubSeq(result, k + 2, k + 3)).v % 256>>),
                       k + 1)
     ELSE UnescapeFrom(result, k + 1)

\* Lines 97-115.
UnescapeFileName(str) == UnescapeFrom(str, 1)

\* The bytes of the longer names: a control character, '.', '/', '_', and '2', '5',
\* 'f', the digits of the escape sequences of '/' and '_'.
NameBytes == {1, 46, 47, 50, 53, 95, 102}
\* The bytes 0x00 .. 0x7F, for the names of one and of two bytes.
AllBytes == 0 .. 127

InitNames ==
  /\ img = BuildImage(ReadTable, {})
  /\ pc = "start"
  /\ partition_group = 0
  /\ number_of_partitions = 0
  /\ partition_table_offset = 0
  /\ i = 0
  /\ cur = NoCur
  /\ m_partition_keys = << >>
  /\ m_partition_tickets = << >>
  /\ m_partition_tmds = << >>
  /\ m_game_partition = PARTITION_NONE
  /\ m_last_decrypted_block = UINT64_MAX
  /\ m_last_decrypted_block_data = UninitData
  /\ alerts = {}
  /\ last = NoCall
  /\ \/ \E n \in 0 .. MaxNameLen : filename \in [1 .. n -> NameBytes]
     \/ \E a \in AllBytes : filename = <<a>>
     \/ \E a \in AllBytes, b \in AllBytes : filename = <<a, b>>
  /\ escaped = << >>
  /\ unescaped = << >>
  /\ name_pc = "name"

DoEscapeFileName ==
  /\ name_pc = "name"
  /\ escaped' = EscapeFileName(filename)
  /\ name_pc' = "escaped"
  /\ UNCHANGED <<filename, unescaped, img, pc, locals, volume, cache, alerts, last>>

DoUnescapeFileName ==
  /\ name_pc = "escaped"
  /\ unescaped' = UnescapeFileName(escaped)
  /\ name_pc' = "unescaped"
  /\ UNCHANGED <<filename, escaped, img, pc, locals, volume, cache, alerts, last>>

NextNames ==
  \/ DoEscapeFileName
  \/ DoUnescapeFileName

SpecNames == InitNames /\ [][NextNames]_vars

(***************************************************************************)
(* The partition table as the image holds it, for stating the claims       *)
(* about discovery.                                                        *)
(***************************************************************************)
HasPartitionTable(image) ==
  ReadSwapped32(image, 96).ok /\ ReadSwapped32(image, 96).v = 0

GroupCount(image, g) == ReadSwapped32(image, 262144 + 8 * g)
GroupTable(image, g) == ReadSwapped32(image, 262144 + 8 * g + 4)

\* The entries <<group, index>> the scan meets.
TableEntries(image) ==
  IF ~HasPartitionTable(image) THEN {}
  ELSE {e \in (0 .. NUM_GROUPS - 1) \X (0 .. 3) :
          /\ GroupCount(image, e[1]).ok
          /\ GroupTable(image, e[1]).ok
          /\ e[2] < GroupCount(image, e[1]).v}

EntryAddr(image, e) == 4 * GroupTable(image, e[1]).v + 8 * e[2]
EntryPartition(image, e) == 4 * U32At(image, EntryAddr(image, e))
EntryHasType0(image, e) ==
  ReadSwapped32(image, EntryAddr(image, e) + 4).ok /\ U32At(image, EntryAddr(image, e) + 4) = 0

\* The discovery steps of an entry: the offset read, the ticket read, ...
EntryTmdSizeInvalid(image, e) ==
  LET p == EntryPartition(image, e)
  IN /\ ReaderRead(image, EntryAddr(image, e), 4)
     /\ ReaderRead(image, p, 676)
     /\ TicketAt(image, p).valid
     /\ ReaderRead(image, p + 676, 4)
     /\ ReaderRead(image, p + 680, 4)
     /\ ~IsValidTMDSize(U32At(image, p + 676))

EntrySucceeds(image, e) ==
  LET p == EntryPartition(image, e)
  IN /\ ReaderRead(image, EntryAddr(image, e), 4)
     /\ ReaderRead(image, p, 676)
     /\ TicketAt(image, p).valid
     /\ ReaderRead(image, p + 676, 4)
     /\ ReaderRead(image, p + 680, 4)
     /\ IsValidTMDSize(U32At(image, p + 676))
     /\ ReaderRead(image, p + ShiftLeft2_u32(U32At(image, p + 680)), U32At(image, p + 676))
     /\ TicketAt(image, p).keyLen = 16

Before(e, f) == e[1] < f[1] \/ (e[1] = f[1] /\ e[2] < f[2])
FirstOf(S) == CHOOSE e \in S : \A f \in S \ {e} : Before(e, f)

\* The entries the constructor is done with in the current state.
Visited ==
  {e \in TableEntries(img) :
     \/ pc = "done"
     \/ e[1] < partition_group
     \/ pc # "group" /\ e[1] = partition_group /\ e[2] < i}

BetweenEntries == pc \in {"group", "entry", "done"}

(***************************************************************************)
(* C4.  Game-partition selection.                                          *)
(***************************************************************************)
\* C4 as claimed: after construction the game partition is the partition of the
\* first table entry with part_type == 0 in (group, index) order, and it is
\* NONE only if no entry has part_type == 0.
C4_FirstType0Entry ==
  pc = "done" =>
    LET type0 == {e \in TableEntries(img) : EntryHasType0(img, e)}
    IN m_game_partition = IF type0 = {} THEN PARTITION_NONE
                          ELSE EntryPartition(img, FirstOf(type0))

\* C4 as amended: after construction the game partition is the partition of the
\* first entry, in (group, index) order, that has part_type == 0 and whose every
\* discovery step succeeds; it is NONE exactly when there is no such entry.
C4_FirstStoredType0Entry ==
  pc = "done" =>
    LET type0 == {e \in TableEntries(img) : EntryHasType0(img, e) /\ EntrySucceeds(img, e)}
    IN m_game_partition = IF type0 = {} THEN PARTITION_NONE
                          ELSE EntryPartition(img, FirstOf(type0))

\* A type-0 entry failed a step and a later type-0 entry became the game partition.
C4_Witness ==
  /\ pc = "done"
  /\ m_game_partition # PARTITION_NONE
  /\ \E e, f \in TableEntries(img) :
       /\ Before(e, f)
       /\ EntryHasType0(img, e) /\ ~EntrySucceeds(img, e)
       /\ EntryHasType0(img, f) /\ EntrySucceeds(img, f)
       /\ EntryPartition(img, e) # EntryPartition(img, f)
       /\ m_game_partition = EntryPartition(img, f)

(***************************************************************************)
(* C5.  The game partition is NONE or a key of the partition map.          *)
(***************************************************************************)
\* C5: in every state during and after construction, m_game_partition is
\* PARTITION_NONE or one of the partitions GetPartitions returns.
C5_GamePartitionInMap ==
  m_game_partition = PARTITION_NONE \/ m_game_partition \in GetPartitions

\* The game partition was assigned on an image where a type-0 entry failed.
C5_Witness ==
  /\ m_game_partition # PARTITION_NONE
  /\ m_game_partition \in GetPartitions
  /\ \E e \in Visited : EntryHasType0(img, e) /\ ~EntrySucceeds(img, e)

(***************************************************************************)
(* C6.  Per-partition failures are local.                                  *)
(***************************************************************************)
\* C6: whenever the constructor stands between two entries (and so when it has
\* completed), the three maps hold exactly the partitions of the entries met so
\* far whose every discovery step succeeded, whichever other entries failed, and
\* a warning was raised exactly for the entries met so far that reached the TMD
\* size check with an invalid size; the constructor is never stuck before "done".
C6_FailuresAreLocal ==
  /\ BetweenEntries =>
       /\ GetPartitions = {EntryPartition(img, e) : e \in {f \in Visited : EntrySucceeds(img, f)}}
       /\ DOMAIN m_partition_tickets = GetPartitions
       /\ DOMAIN m_partition_tmds = GetPartitions
       /\ alerts = {e \in Visited : EntryTmdSizeInvalid(img, e)}
  /\ pc # "done" => ENABLED NextDisc
  /\ pc = "done" /\ HasPartitionTable(img) => partition_group = NUM_GROUPS

\* Construction completed on an image where an entry with an invalid TMD size was
\* skipped with a warning, between one stored entry and another stored entry.
C6_Witness ==
  /\ pc = "done"
  /\ \E e, f, g \in TableEntries(img) :
       /\ Before(e, f) /\ Before(f, g)
       /\ EntrySucceeds(img, e) /\ EntrySucceeds(img, g)
       /\ EntryTmdSizeInvalid(img, f) /\ f \in alerts
       /\ EntryPartition(img, f) \notin GetPartitions
       /\ {EntryPartition(img, e), EntryPartition(img, g)} \subseteq GetPartitions

(***************************************************************************)
(* Vocabulary of the claims about the read path and the integrity check.   *)
(***************************************************************************)
Known(partition) == partition \in GetPartitions
Unknown(partition) == partition # PARTITION_NONE /\ ~Known(partition)

\* c is the absolute offset of a cluster of the partition.
ClusterOf(partition, c) ==
  /\ c >= partition + PARTITION_DATA_OFFSET
  /\ (c - partition - PARTITION_DATA_OFFSET) % BLOCK_TOTAL_SIZE = 0

ClusterOffset(partition, cluster_id) ==
  partition + PARTITION_DATA_OFFSET + cluster_id * BLOCK_TOTAL_SIZE

\* The payload of the cluster at c decrypted under `key`: the IV is the 16 bytes
\* at 0x3D0 of the cluster, the ciphertext its 0x7C00 bytes from 0x400.
Payload(key, c) == AesCbcDecrypt(key, BLOCK_DATA_SIZE, c + 976, c + BLOCK_HEADER_SIZE)
\* The metadata of the cluster at c decrypted under `key` with the zero IV.
Metadata(key, c) == AesCbcDecrypt(key, BLOCK_HEADER_SIZE, ZeroIV, c)

CachePopulated == m_last_decrypted_block # UINT64_MAX

SplitPoints(offset, length) ==
  {k \in {0, 1, length \div 2, length - 1, length,
          BLOCK_DATA_SIZE - (offset % BLOCK_DATA_SIZE)} : 0 <= k /\ k <= length}

\* C2: a Read(o, n) on a known partition succeeds exactly when Read(o, k) followed
\* by Read(o + k, n - k), started from the same cache, both succeed, and when it
\* succeeds it returns the concatenation of their bytes, for every 0 <= k <= n.
C2_ChunkSplit ==
  last.op = "Read" /\ Known(last.partition) =>
    \A k \in SplitPoints(last.offset, last.length) :
      LET r1 == Read(img, m_partition_keys, last.pre_block, last.pre_data,
                     last.offset, k, last.partition)
          r2 == Read(img, m_partition_keys, r1.block, r1.data,
                     last.offset + k, last.length - k, last.partition)
      IN /\ last.ok <=> (r1.ok /\ r2.ok)
         /\ last.ok => last.bytes = Concat(r1.bytes, r2.bytes)

\* A successful read through a populated cache returned bytes of two clusters.
C2_Witness ==
  /\ last.op = "Read" /\ last.ok /\ Known(last.partition)
  /\ last.pre_block # UINT64_MAX
  /\ Len(last.bytes) = 2
  /\ last.length = 2

(***************************************************************************)
(* C3.  History independence of Read.                                      *)
(***************************************************************************)
\* C3: the result of a Read on a known partition (success flag and bytes) is the
\* one the same Read gives on the freshly constructed volume, whatever calls came
\* before it.
C3_HistoryIndependent ==
  last.op = "Read" /\ Known(last.partition) =>
    LET fresh == Read(img, m_partition_keys, UINT64_MAX, UninitData,
                      last.offset, last.length, last.partition)
    IN last.ok = fresh.ok /\ last.bytes = fresh.bytes

(***************************************************************************)
(* C7.  Calls on an unknown partition.                                     *)
(***************************************************************************)
\* C7: a call on a partition that is neither PARTITION_NONE nor in the map issues
\* no read of the blob reader and leaves the cache as it was; Read and
\* CheckIntegrity return false, GetTicket and GetTMD return the invalid sentinels,
\* GetTitleID returns nothing.
C7_UnknownPartition ==
  last.op # "none" /\ Unknown(last.partition) =>
    /\ last.reads = 0 /\ last.decrypts = 0
    /\ m_last_decrypted_block = last.pre_block
    /\ m_last_decrypted_block_data = last.pre_data
    /\ last.op \in {"Read", "CheckIntegrity"} => ~last.ok
    /\ last.op = "GetTicket" => last.ticket = INVALID_TICKET /\ ~TicketIsValid(last.ticket)
    /\ last.op = "GetTMD" => last.tmd = INVALID_TMD /\ ~TMDIsValid(last.tmd)
    /\ last.op = "GetTitleID" => ~last.title_id.ok

\* A Read of a whole cluster on an unknown partition returned false with a
\* populated cache, on a volume that has partitions.
C7_Witness ==
  /\ last.op = "Read" /\ Unknown(last.partition) /\ ~last.ok
  /\ last.length = BLOCK_DATA_SIZE
  /\ CachePopulated
  /\ GetPartitions # {}

(***************************************************************************)
(* C8.  A failed read during CheckIntegrity.                               *)
(***************************************************************************)
\* C8: if a read of the blob reader issued by CheckIntegrity on a known partition
\* fails, CheckIntegrity returns false.
C8_FailedReadFailsCheck ==
  last.op = "CheckIntegrity" /\ Known(last.partition) /\ last.io_failed => ~last.ok

(***************************************************************************)
(* C9, C10.  What CheckIntegrity verifies.                                 *)
(***************************************************************************)
\* The cluster is a hole for the partition: its pad is not all zero.
IsHole(image, key, c) == MDPadNonZero(image, Metadata(key, c))

\* The hashes of the cluster's payload, decrypted with the partition's key, that
\* differ from the stored ones.
BadHashes(image, key, c) ==
  {h \in 0 .. NUM_HASHES - 1 :
     Sha1(image, << Slice(Payload(key, c), h * 1024, 1024) >>) # MDHash(image, Metadata(key, c), h)}

Verifies(image, key, c) == IsHole(image, key, c) \/ BadHashes(image, key, c) = {}

\* The image before the change of a data byte.
Pristine(image) ==
  [image EXCEPT !.cl = [c \in DOMAIN image.cl |-> [image.cl[c] EXCEPT !.flip = {}]]]

FlippedClusters(image) == {c \in DOMAIN image.cl : image.cl[c].flip # {}}

\* CheckIntegrity over n clusters returns true on the pristine image.
PassesPristine(partition, n) ==
  CheckLoop(Pristine(img), m_partition_keys, partition, UINT64_MAX, UninitData,
            0, n, 1, 0, FALSE).ok

\* C9 as claimed: on an image that differs in one data byte of one cluster of the
\* partition from an image on which CheckIntegrity returns true, CheckIntegrity
\* returns false, whatever the cache holds.
C9_FlipDetected ==
  last.op = "CheckIntegrity" /\ Known(last.partition) =>
    \A cluster_id \in 0 .. last.n_clusters - 1 :
      LET c == ClusterOffset(last.partition, cluster_id)
      IN /\ FlippedClusters(img) = {c}
         /\ Cardinality(img.cl[c].flip) = 1
         /\ PassesPristine(last.partition, last.n_clusters)
         => ~last.ok

\* C9 as amended: the same, for a cluster that is not a hole (the pad
\* md_plain[0x26C..0x280] is all zero); a changed byte in a hole is not detected.
C9_FlipDetectedOutsideHoles ==
  last.op = "CheckIntegrity" /\ Known(last.partition) =>
    \A cluster_id \in 0 .. last.n_clusters - 1 :
      LET c == ClusterOffset(last.partition, cluster_id)
      IN /\ FlippedClusters(img) = {c}
         /\ Cardinality(img.cl[c].flip) = 1
         /\ ~IsHole(img, m_partition_keys[last.partition], c)
         /\ PassesPristine(last.partition, last.n_clusters)
         => ~last.ok

\* CheckIntegrity, called with another cluster in the cache, reported the changed
\* sub-block of a cluster that is not a hole.
C9_Witness ==
  /\ last.op = "CheckIntegrity" /\ Known(last.partition) /\ ~last.ok
  /\ last.pre_block # UINT64_MAX
  /\ last.fail_kind = "hash"
  /\ \E cluster_id \in 0 .. last.n_clusters - 1 :
       LET c == ClusterOffset(last.partition, cluster_id)
       IN /\ FlippedClusters(img) = {c}
          /\ img.cl[c].flip = {last.fail_at[2]}
          /\ last.fail_at[1] = cluster_id
          /\ ~IsHole(img, m_partition_keys[last.partition], c)
          /\ PassesPristine(last.partition, last.n_clusters)

\* C10: with all reads succeeding, CheckIntegrity on a known partition returns
\* true exactly when every cluster below n_clusters = 4 * size field / 0x8000 is a
\* hole or has all its 31 hashes right; when it returns false it reports the first
\* mismatch in cluster-major, hash-minor order.
C10_CheckResult ==
  last.op = "CheckIntegrity" /\ Known(last.partition) /\ ~last.io_failed =>
    LET key == m_partition_keys[last.partition]
        n == (4 * U32At(img, last.partition + 700)) \div BLOCK_TOTAL_SIZE
        failing == {cluster_id \in 0 .. n - 1 :
                      ~Verifies(img, key, ClusterOffset(last.partition, cluster_id))}
    IN /\ last.n_clusters = n
       /\ last.ok <=> failing = {}
       /\ ~last.ok =>
            \E cluster_id \in failing :
              /\ \A d \in failing : cluster_id <= d
              /\ last.fail_at[1] = cluster_id
              /\ \E h \in BadHashes(img, key, ClusterOffset(last.partition, cluster_id)) :
                   /\ \A g \in BadHashes(img, key, ClusterOffset(last.partition, cluster_id)) :
                        h <= g
                   /\ last.fail_at[2] = h

\* C10 for the calls that do not find, in the cache, a cluster of the partition
\* decrypted under another key.
C10_CheckResultWithoutStaleCache ==
  /\ last.op = "CheckIntegrity" /\ Known(last.partition) /\ ~last.io_failed
  /\ last.pre_block # UINT64_MAX /\ ClusterOf(last.partition, last.pre_block)
       => last.pre_data = Payload(m_partition_keys[last.partition], last.pre_block)
  => C10_CheckResult

(***************************************************************************)
(* C11.  How many clusters a read fetches and decrypts.                    *)
(***************************************************************************)
\* The clusters a Read(offset, length) of the partition touches, in order.
Touched(partition, offset, length) ==
  IF length = 0 THEN << >>
  ELSE [k \in 1 .. ((offset + length - 1) \div BLOCK_DATA_SIZE) - (offset \div BLOCK_DATA_SIZE) + 1
          |-> ClusterOffset(partition, (offset \div BLOCK_DATA_SIZE) + k - 1)]

\* The positions of the touched clusters that differ from the cluster the cache
\* holds when the read comes to them.
Misses(touched, held) ==
  {k \in 1 .. Len(touched) : touched[k] # (IF k = 1 THEN held ELSE touched[k - 1])}

Readable(c) == ReaderRead(img, c, BLOCK_TOTAL_SIZE)

\* C11 as claimed: a read on a known partition performs one fetch and one
\* decryption for each cluster it touches that differs from the cluster in the
\* cache at that moment; a read crossing one cluster boundary from an empty cache
\* performs two decryptions.
C11_OneDecryptionPerMiss ==
  last.op = "Read" /\ Known(last.partition) =>
    LET touched == Touched(last.partition, last.offset, last.length)
        misses == Misses(touched, last.pre_block)
    IN /\ last.reads = Cardinality(misses)
       /\ last.decrypts = Cardinality(misses)
       /\ Len(touched) = 2 /\ last.pre_block = UINT64_MAX => last.decrypts = 2

\* C11 as amended: the read fetches, in order, each touched cluster that differs
\* from the cached one, stops at the first fetch that fails, and decrypts exactly
\* the clusters it fetched; a successful read across one boundary from an empty
\* cache decrypts twice; a successful non-empty read leaves the cluster of its last
\* byte in the cache, so that reads confined to that cluster decrypt nothing more.
C11_OneDecryptionPerFetchedMiss ==
  last.op = "Read" /\ Known(last.partition) =>
    LET touched == Touched(last.partition, last.offset, last.length)
        misses == Misses(touched, last.pre_block)
        failed == {k \in misses : ~Readable(touched[k])}
        fetched == {k \in misses : \A f \in failed : k <= f}
    IN /\ last.ok <=> failed = {}
       /\ last.reads = Cardinality(fetched)
       /\ last.decrypts = Cardinality(fetched \ failed)
       /\ last.ok /\ Len(touched) = 2 /\ last.pre_block = UINT64_MAX => last.decrypts = 2
       /\ last.ok /\ Len(touched) = 1 /\ last.pre_block = touched[1] => last.decrypts = 0
       /\ last.ok /\ last.length > 0 => m_last_decrypted_block = touched[Len(touched)]

\* A successful read across a cluster boundary that found its first cluster in
\* the cache fetched and decrypted the second one only.
C11_Witness ==
  /\ last.op = "Read" /\ Known(last.partition) /\ last.ok
  /\ last.length = 2 /\ last.offset = BLOCK_DATA_SIZE - 1
  /\ last.pre_block = ClusterOffset(last.partition, 0)
  /\ last.decrypts = 1 /\ last.reads = 1

(***************************************************************************)
(* C12.  Passthrough.                                                      *)
(***************************************************************************)
\* C12: Read on PARTITION_NONE returns the success flag and the bytes of the blob
\* reader's read of the same offset and length, decrypts nothing and leaves the
\* cache as it was.
C12_Passthrough ==
  last.op = "Read" /\ last.partition = PARTITION_NONE =>
    /\ last.ok = ReaderRead(img, last.offset, last.length)
    /\ last.ok => last.bytes = RawBytes(last.offset, last.length)
    /\ last.reads = 1 /\ last.decrypts = 0
    /\ m_last_decrypted_block = last.pre_block
    /\ m_last_decrypted_block_data = last.pre_data

\* A raw read failed on an unreadable byte, on a volume with partitions and a
\* populated cache.
C12_Witness ==
  /\ last.op = "Read" /\ last.partition = PARTITION_NONE /\ ~last.ok
  /\ last.length = BLOCK_DATA_SIZE
  /\ CachePopulated
  /\ GetPartitions # {}

(***************************************************************************)
(* C13.  Reads of length 0.                                                *)
(***************************************************************************)
\* C13 as claimed: for every partition descriptor and offset, a Read of length 0
\* returns true and issues no call to the blob reader.
C13_ZeroLength ==
  last.op = "Read" /\ last.length = 0 => last.ok /\ last.reads = 0

\* C13 as amended: on a known partition a Read of length 0 returns true, issues no
\* call to the blob reader, writes no byte and leaves the cache as it was; on
\* PARTITION_NONE it returns the result of the blob reader's read of length 0; on
\* an unknown partition it returns false without a call to the blob reader.
C13_ZeroLengthByPartition ==
  last.op = "Read" /\ last.length = 0 =>
    /\ Known(last.partition) =>
         /\ last.ok /\ last.reads = 0 /\ last.decrypts = 0 /\ last.bytes = << >>
         /\ m_last_decrypted_block = last.pre_block
         /\ m_last_decrypted_block_data = last.pre_data
    /\ last.partition = PARTITION_NONE =>
         last.reads = 1 /\ last.ok = ReaderRead(img, last.offset, 0)
    /\ Unknown(last.partition) => ~last.ok /\ last.reads = 0

\* A Read of length 0 at the first offset of a cluster that is unreadable and not
\* the cached one returned true on a known partition.
C13_Witness ==
  /\ last.op = "Read" /\ last.length = 0 /\ Known(last.partition) /\ last.ok
  /\ ~Readable(ClusterOffset(last.partition, last.offset \div BLOCK_DATA_SIZE))
  /\ m_last_decrypted_block # ClusterOffset(last.partition, last.offset \div BLOCK_DATA_SIZE)

(***************************************************************************)
(* C14.  The volume after construction.                                    *)
(***************************************************************************)
\* C14: no call on the constructed volume adds, removes or changes a partition
\* record or changes the game partition; a call changes at most the cache.
C14_ImmutableAfterConstruction ==
  [][pc = "done" => volume' = volume /\ img' = img /\ pc' = "done"]_vars

\* CheckIntegrity replaced the cached cluster on a volume with two partitions
\* and a game partition.
C14_Witness ==
  /\ last.op = "CheckIntegrity" /\ Known(last.partition)
  /\ last.pre_block # UINT64_MAX /\ m_last_decrypted_block # last.pre_block
  /\ Cardinality(GetPartitions) = 2
  /\ m_game_partition # PARTITION_NONE

(***************************************************************************)
(* C15.  PartitionOffsetToRawOffset.                                       *)
(***************************************************************************)
\* C15: for PARTITION_NONE the raw offset is the offset; for any other partition it
\* is partition.offset + 0x20000 + (offset / 0x7C00) * 0x8000 + offset mod 0x7C00,
\* which is at least partition.offset + 0x20000 and lies in the first 0x7C00 bytes
\* from the offset of the cluster Read fetches for that offset.
C15_Geometry ==
  last.op = "PartitionOffsetToRawOffset" =>
    IF last.partition = PARTITION_NONE THEN last.raw_offset = last.offset64
    ELSE
      LET qr == DivMod64(last.offset64, BLOCK_DATA_SIZE)
          start == Add64(U64(last.partition), U64(PARTITION_DATA_OFFSET))
          blocks == Mul64(qr.quot, BLOCK_TOTAL_SIZE)
          block == Add64(start.v, blocks.v)
          sum == Add64(block.v, U64(qr.rem))
          end == Add64(block.v, U64(BLOCK_DATA_SIZE))
      IN /\ ~blocks.wrapped /\ ~block.wrapped /\ ~sum.wrapped
         /\ last.raw_offset = sum.v
         /\ ~Less64(last.raw_offset, start.v)
         /\ ~Less64(last.raw_offset, block.v)
         /\ end.wrapped \/ Less64(last.raw_offset, end.v)

\* C15 for the offsets whose raw offset is below 2^64.
C15_GeometryWithoutWrap ==
  /\ last.op = "PartitionOffsetToRawOffset"
  /\ ~PartitionOffsetToRawOffset(last.offset64, last.partition).wrapped
  => C15_Geometry

(***************************************************************************)
(* C16.  Hole clusters.                                                    *)
(***************************************************************************)
\* C16: CheckIntegrity on a known partition compares no hash and reads no data of
\* a cluster that is a hole: it never reports a hole, it never leaves a cluster it
\* skipped in the cache, and when it returns true it has issued one read for the
\* size, one for the metadata of each cluster and one fetch, with one decryption,
\* for each cluster that is not a hole and was not served from the cache.
C16_HolesSkipped ==
  last.op = "CheckIntegrity" /\ Known(last.partition) =>
    LET key == m_partition_keys[last.partition]
        nonholes == {cluster_id \in 0 .. last.n_clusters - 1 :
                       ~IsHole(img, key, ClusterOffset(last.partition, cluster_id))}
        cached == {cluster_id \in nonholes :
                     /\ \A d \in nonholes : cluster_id <= d
                     /\ ClusterOffset(last.partition, cluster_id) = last.pre_block}
    IN /\ ~last.ok /\ last.fail_kind \in {"hash", "data"} => last.fail_at[1] \in nonholes
       /\ m_last_decrypted_block # last.pre_block =>
            \E cluster_id \in nonholes :
              m_last_decrypted_block = ClusterOffset(last.partition, cluster_id)
       /\ last.ok =>
            /\ last.decrypts = Cardinality(nonholes) - Cardinality(cached)
            /\ last.reads = 1 + last.n_clusters + last.decrypts

\* CheckIntegrity returned true over two clusters, the first a hole with a changed
\* data byte, the second not a hole, and fetched the second only.
C16_Witness ==
  /\ last.op = "CheckIntegrity" /\ Known(last.partition) /\ last.ok
  /\ last.n_clusters = 2
  /\ IsHole(img, m_partition_keys[last.partition], ClusterOffset(last.partition, 0))
  /\ img.cl[ClusterOffset(last.partition, 0)].flip # {}
  /\ ~IsHole(img, m_partition_keys[last.partition], ClusterOffset(last.partition, 1))
  /\ last.decrypts = 1 /\ last.reads = 4
  /\ m_last_decrypted_block = ClusterOffset(last.partition, 1)

(***************************************************************************)
(* C17.  An image without partitions.                                      *)
(***************************************************************************)
MagicNonZero(image) == ReaderRead(image, 96, 4) /\ U32At(image, 96) # 0

\* C17: when the word at 0x60 is not zero the constructor never enters the loop
\* over the partition table, the maps stay empty, the game partition stays
\* PARTITION_NONE, and Read on PARTITION_NONE returns the bytes of the image.
C17_NoPartitions ==
  MagicNonZero(img) =>
    /\ pc \in {"start", "done"}
    /\ partition_group = 0 /\ number_of_partitions = 0 /\ partition_table_offset = 0 /\ i = 0
    /\ m_partition_keys = << >> /\ m_partition_tickets = << >> /\ m_partition_tmds = << >>
    /\ m_game_partition = PARTITION_NONE
    /\ alerts = {}
    /\ last.op = "GetPartitions" => last.partitions = {}
    /\ last.op = "GetGamePartition" => last.game_partition = PARTITION_NONE
    /\ last.op = "Read" /\ last.partition = PARTITION_NONE =>
         /\ last.ok = ReaderRead(img, last.offset, last.length)
         /\ last.ok => last.bytes = RawBytes(last.offset, last.length)

\* A raw read of a whole cluster's worth of bytes succeeded on an image whose
\* magic word is not zero.
C17_Witness ==
  /\ MagicNonZero(img)
  /\ last.op = "Read" /\ last.partition = PARTITION_NONE /\ last.ok
  /\ last.length = BLOCK_DATA_SIZE /\ last.bytes = RawBytes(last.offset, BLOCK_DATA_SIZE)

(***************************************************************************)
(* C18.  The life of the cache.                                            *)
(***************************************************************************)
\* C18: the cache is empty until construction is done; it changes only in a Read
\* (or the Read that CheckIntegrity issues) on a known partition that fetched and
\* decrypted a cluster, and then holds a readable cluster decrypted with that
\* partition's key; a read whose first fetch fails leaves it as it was; once
\* populated it is never empty again.
C18_CacheLifecycle ==
  /\ [](pc # "done" => m_last_decrypted_block = UINT64_MAX
                       /\ m_last_decrypted_block_data = UninitData)
  /\ [][/\ cache' # cache =>
            /\ last'.op \in {"Read", "CheckIntegrity"}
            /\ last'.partition \in DOMAIN m_partition_keys
            /\ last'.decrypts >= 1 /\ last'.reads >= last'.decrypts
            /\ ReaderRead(img, m_last_decrypted_block', BLOCK_TOTAL_SIZE)
            /\ m_last_decrypted_block_data'
                 = Payload(m_partition_keys[last'.partition], m_last_decrypted_block')
        /\ last'.op = "Read" /\ last'.decrypts = 0 => cache' = cache
        /\ m_last_decrypted_block # UINT64_MAX => m_last_decrypted_block' # UINT64_MAX
     ]_vars

\* A read on a known partition whose only fetch failed left the populated cache
\* as it was.
C18_Witness ==
  /\ last.op = "Read" /\ Known(last.partition) /\ ~last.ok
  /\ last.reads = 1 /\ last.decrypts = 0
  /\ last.pre_block # UINT64_MAX
  /\ m_last_decrypted_block = last.pre_block
  /\ m_last_decrypted_block_data = last.pre_data

(***************************************************************************)
(* C19.  Widening of the 32-bit pointers of the image.                     *)
(***************************************************************************)
\* C19: every 32-bit raw value of the image is widened to 64 bits before it is
\* shifted left by 2: a stored partition lies at 4 times the raw offset of its
\* entry, and its TMD was read at partition_offset + 4 * tmd_addr_raw.
C19_PointersWidened ==
  pc = "done" =>
    /\ \A partition \in GetPartitions :
         \E e \in TableEntries(img) :
           U64(partition) = Mul64(U64(U32At(img, EntryAddr(img, e))), 4).v
    /\ \A partition \in DOMAIN m_partition_tmds :
         U64(m_partition_tmds[partition].at)
           = Add64(U64(partition), Mul64(U64(U32At(img, partition + 680)), 4).v).v

\* C19 on the images whose raw TMD addresses are below 2^30.
C19_PointersWidenedBelowBit30 ==
  (\A partition \in DOMAIN m_partition_tmds : U32At(img, partition + 680) < 1073741824)
    => C19_PointersWidened

(***************************************************************************)
(* C20.  The three maps hold the same, valid, records.                     *)
(***************************************************************************)
RecordsConsistent ==
  /\ DOMAIN m_partition_tickets = GetPartitions
  /\ DOMAIN m_partition_tmds = GetPartitions
  /\ \A partition \in GetPartitions :
       /\ TicketIsValid(m_partition_tickets[partition])
       /\ m_partition_tickets[partition].keyLen = 16
       /\ IsValidTMDSize(m_partition_tmds[partition].size)
       /\ TicketIsValid(GetTicket(m_partition_tickets, partition))
       /\ GetTitleID(m_partition_tickets, partition).ok
       /\ Read(img, m_partition_keys, m_last_decrypted_block, m_last_decrypted_block_data,
               0, 0, partition).ok

\* C20 as claimed: in every state during and after construction the three maps
\* hold the same partitions, each with a valid ticket, a 16-byte title key and a
\* TMD of a valid size, so that GetTicket is valid, GetTitleID is defined and Read
\* knows the partition.
C20_RecordsConsistent == RecordsConsistent

\* C20 as amended: the same whenever the constructor stands between two table
\* entries, and after construction; while an entry is stored the key map holds
\* the partition before the ticket map and the TMD map do.
C20_RecordsConsistentBetweenEntries ==
  /\ BetweenEntries \/ pc = "start" => RecordsConsistent
  /\ DOMAIN m_partition_tickets \subseteq GetPartitions
  /\ DOMAIN m_partition_tmds \subseteq DOMAIN m_partition_tickets

\* Construction is done, two partitions are stored, and an entry with a title key
\* that is not 16 bytes long, or an invalid ticket, left no record.
C20_Witness ==
  /\ pc = "done"
  /\ Cardinality(GetPartitions) = 2
  /\ \E e \in TableEntries(img) :
       /\ ~EntrySucceeds(img, e)
       /\ ReaderRead(img, EntryAddr(img, e), 4)
       /\ EntryPartition(img, e) \notin GetPartitions
       /\ ~TicketIsValid(TicketAt(img, EntryPartition(img, e)))
            \/ TicketAt(img, EntryPartition(img, e)).keyLen # 16

(***************************************************************************)
(* C21.  The sentinel of the empty cache.                                  *)
(***************************************************************************)
\* 32-bit raw partition offsets, as the table holds them: the smallest, the
\* largest, those of the image, and those whose partition ends 4 bytes below a
\* multiple of 0x8000.
RawPartitionArgs ==
  {U64(0), U64(1), U64(8190), U64(8191), U64(8192), U64(PartA \div 4), U64(PartB \div 4),
   <<0, 0, Limb - 1, 8191>>, <<0, 0, Limb - 1, Limb - 2>>, <<0, 0, Limb - 1, Limb - 1>>}

\* Logical offsets: those of the calls, and the first and the last offset of each
\* of the 16 clusters below cluster number 2^49.
SentinelOffsetArgs ==
  OffsetArgs64
    \cup {Add64(Mul64(<<1, Limb - 1, Limb - 1, Limb - j>>, BLOCK_DATA_SIZE).v, U64(r)).v :
            j \in 1 .. 16, r \in {0, BLOCK_DATA_SIZE - 1}}

\* The block offsets the arguments give.
SentinelBlocks ==
  {BlockOffsetOnDisc64(o, Mul64(r, 4).v) : r \in RawPartitionArgs, o \in SentinelOffsetArgs}

\* The first cluster a read of the call's offset touches.
FirstCluster == ClusterOffset(last.partition, last.offset \div BLOCK_DATA_SIZE)

SentinelNeverAliases ==
  /\ U64Max \notin SentinelBlocks
  /\ last.op = "PartitionOffsetToRawOffset" /\ Known(last.partition) =>
       BlockOffsetOnDisc64(last.offset64, U64(last.partition)) # U64Max
  /\ last.op = "Read" /\ Known(last.partition) /\ last.ok /\ last.length > 0 =>
       /\ m_last_decrypted_block # UINT64_MAX
       /\ U64(m_last_decrypted_block)
            = BlockOffsetOnDisc64(U64(last.offset + last.length - 1), U64(last.partition))

\* C21 as claimed: block_offset_on_disc of a partition of the map (4 times a
\* 32-bit value) and a logical offset is never UINT64_MAX, even modulo 2^64, so the
\* first read on a known partition after construction always fetches and
\* decrypts a cluster instead of serving the uninitialised buffer.
C21_SentinelNeverAliases ==
  /\ SentinelNeverAliases
  /\ last.op = "Read" /\ Known(last.partition) /\ last.pre_block = UINT64_MAX =>
       last.reads >= 1 /\ last.decrypts >= 1

\* C21 as amended: the same arithmetic; a read of one byte or more on a known
\* partition that finds the cache empty fetches its first cluster, decrypts it
\* when the fetch succeeds, and every byte it delivers is a byte decrypted with
\* the key of the partition, none a byte of the uninitialised buffer.
C21_SentinelNeverAliasesNonEmptyRead ==
  /\ SentinelNeverAliases
  /\ last.op = "Read" /\ Known(last.partition) /\ last.pre_block = UINT64_MAX =>
       /\ last.length > 0 => last.reads >= 1
       /\ last.length > 0 /\ Readable(FirstCluster) => last.decrypts >= 1
       /\ \A k \in DOMAIN last.bytes :
            /\ last.bytes[k] # Slice(UninitData, last.bytes[k].lo, last.bytes[k].hi - last.bytes[k].lo)
            /\ last.bytes[k].key = m_partition_keys[last.partition]

\* A read on a known partition found the cache empty, fetched and decrypted one
\* cluster and delivered its bytes; and the arguments reach 2^64 - 4, the block
\* offset nearest to the sentinel.
C21_Witness ==
  /\ last.op = "Read" /\ Known(last.partition) /\ last.ok
  /\ last.pre_block = UINT64_MAX /\ last.length > 0
  /\ last.reads = 1 /\ last.decrypts = 1 /\ last.bytes # << >>
  /\ <<Limb - 1, Limb - 1, Limb - 1, Limb - 4>> \in SentinelBlocks

(***************************************************************************)
(* C22.  Escaping of file names.                                           *)
(***************************************************************************)
\* A name of one byte or more, made only of '.'.
DotName(str) == str # << >> /\ AllDots(str)

\* The bytes an escaped name must not contain: the control characters and
\* " * / : < > ? \ | 0x7f.
ForbiddenBytes == (0 .. 31) \cup {34, 42, 47, 58, 60, 62, 63, 92, 124, 127}

\* C22: for every file name over the bytes 0x00 .. 0x7F,
\* UnescapeFileName(EscapeFileName(s)) = s, and EscapeFileName(s) is not a name
\* made only of '.' and contains no forbidden byte.
C22_EscapeRoundTrips ==
  /\ name_pc \in {"escaped", "unescaped"} =>
       /\ ~DotName(escaped)
       /\ \A k \in DOMAIN escaped : escaped[k] \notin ForbiddenBytes
  /\ name_pc = "unescaped" => unescaped = filename

\* The name "__2f__", which reads as the escape sequence of '/', went through
\* both functions: its escaped form is another name, and it came back.
C22_Witness ==
  /\ name_pc = "unescaped"
  /\ filename = <<95, 95, 50, 102, 95, 95>>
  /\ escaped # filename
  /\ UnescapeFileName(filename) = <<47>>
  /\ unescaped = filename

=============================================================================
